---- MODULE Spec2Model ----
(***************************************************************************)
(* Conversation routing and contact-collection flows of the e-commerce     *)
(* support chatbot.                                                         *)
(*                                                                          *)
(*   chatbot     src/src/chatbot.py: chat_with_user and the compiled graph  *)
(*               (continue_conversation, collect_contact_info,              *)
(*               lookup_order, router).                                     *)
(*   manager     src/src/core/conversation.py: ConversationManager with     *)
(*               src/src/agents/human_rep_agent.py and the other agents.    *)
(*                                                                          *)
(* A text is a sequence of phrases.  A phrase is a piece of text that the   *)
(* code never looks inside except by the substring, word and pattern tests  *)
(* tabulated in Kw, Words and Hex32 below; the tables were computed from    *)
(* the full wording of each phrase.  Templates (f-strings) concatenate      *)
(* phrases with the texts they embed.                                       *)
(***************************************************************************)
EXTENDS Integers, Sequences, FiniteSets, TLC

\* ---------------------------------------------------------------- bounds
MaxTurns == 2        \* calls per session in Spec
MaxFlowTurns == 4    \* calls per session in SpecFlow
MaxHandoffTurns == 5 \* calls per session in SpecHandoff
MaxLlmReplies == 1   \* replies of the language model within one chatbot.invoke
MaxOrders == 2       \* rows of the orders dataset in SpecLookup
MaxVectorOrders == 1 \* rows of the vector collection in SpecLookup
MaxCacheReplies == 2 \* replies of the language model within one chatbot.invoke in SpecCache
MaxAppTurns == 3     \* calls of process_message per session in SpecApp
MaxHistoryTurns == 7 \* calls of handle_message per session in SpecHistory
MaxFaqTurns == 5     \* calls per session in SpecFaq
MaxDispatchTurns == 3 \* calls of handle_message per session in SpecDispatch
MaxConcurrentTurns == 3 \* calls of handle_message per session in SpecConcurrent
MaxSessionTurns == 4 \* calls of handle_message, over both sessions, in SpecSessions
MaxAfterTurns == 5
MaxLoopTurns == 1   \* calls per session in SpecAfterHandoff

\* ------------------------------------------------------------- constants
RECURSION_LIMIT == 30

\* Python None.  An f-string renders it as the word None.
None == <<"None">>

\* ------------------------------------------------- phrases typed by users
WS == " "
NAME == "Jane Doe"
EMAIL == "jane@x.com"
PHONE == "555-1234"
SKIP == "skip"
NEVERMIND == "nevermind"
ORDER_STATUS_Q == "order status"
RETURN_POLICY_Q == "return policy"
TALK_TO_AGENT == "talk to agent"
HUMAN == "human"
HELLO == "hello"
JOKE == "tell me a joke"
THANKS == "thanks"
ORDER_ID_1 == "e481f51cbdc54678b7cc49136f2d6af7"
ORDER_ID_2 == "00000000000000000000000000000000"
CUSTOMER_ID_1 == "9ef432eb6251297304e76186b10a928d"
TOM_AND_ANN == "Tom & Ann"
MIXED_ID == "QRS123def456tuv789jkl012mno345p0"
LONG_RUN == "e481f51cbdc54678b7cc49136f2d6af7abc"

\* --------------------------------------------- phrases written by the bot
CUSTOMER_ID_PROMPT == "I understand you'd like to check your order status using your customer ID. Could you please provide your customer ID? It should be a 32-character alphanumeric code."
CANCELED_MSG == "I've canceled the request to speak with a human representative. How else can I help you today?"
RETURN_POLICY_FAQ == "Our return policy is as follows: ..."
SHIPPING_FAQ == "Our shipping policy: ..."
PAYMENT_FAQ == "We accept the following payment methods: ..."
WARRANTY_FAQ == "Our warranty policy: ..."
CANCELLATION_FAQ == "Order cancellation information: ..."
GIFT_CARD_FAQ == "Gift card information: ..."
CONTACT_FAQ == "Our contact information: ..."
ASK_NAME_MSG == "I'll connect you with a human representative. Could you please provide your name?"
THANK_YOU_PRE == "Thank you,"
ASK_EMAIL_POST == ". Could you please provide your email address?"
ASK_PHONE_MSG == "Thank you. Finally, could you please provide your phone number?"
DONE_PRE == "Thank you for providing your information. A customer service representative will contact you soon at"
DONE_OR == "or"
DONE_POST == ". Is there anything else you'd like to add before I submit your request?"
ORDER_INFO_PRE == "Okay, here's the information for order #"
STATUS_DELIVERED == "Status: **Delivered** - Your order has been delivered to the specified address. ..."
STATUS_SHIPPED == "Status: **Shipped** - Your order has been shipped and is on its way to you. ..."
FOUND_ONE_CUSTOMER_PRE == "I found an order for customer ID"
FOUND_PRE == "I found"
FOUND_MANY_CUSTOMER_MID == "orders for customer ID"
MOST_RECENT == ". Here's the most recent:"
NOT_FOUND_PRE == "I couldn't find any orders or customers with ID"
NOT_FOUND_POST == ". Please check the ID and try again."
ORDER_STATUS_PROMPT == "To check your order status, I'll need your order ID or customer ID. ..."
GREETING_MSG == "Hello! Welcome to our e-commerce support. How can I help you today? You can ask about order status, return policies, shipping information, or connect with a human representative."
GOODBYE_MSG == "You're welcome! Thank you for contacting our support. If you have any other questions in the future, don't hesitate to reach out. Have a great day!"
GRAPH_FALLBACK_MSG == "I'm sorry, I don't have specific information about that. Would you like to ask about our return policy, shipping options, order status, or speak with a human representative?"
NODE_ID_PROMPT == "I'd be happy to help check your order status. Could you please provide your order ID or customer ID? It should be a 32-character alphanumeric code."
LLM_TROUBLE_MSG == "I'm having trouble processing your request. Could you please try again?"
NODE_NOT_FOUND_PRE == "I couldn't find any orders with ID"
NODE_FOUND_ONE_CUSTOMER == "I found an order for your customer ID."
NODE_FOUND_MANY_CUSTOMER == "orders for your customer ID. Here's the status of your most recent order:"
NODE_FOUND_MANY_VECTOR == "orders for your customer ID. Here's the most recent one:"
SUMMARY_ONE_PRE == "You have 1 order with customer ID"
SUMMARY_ONE_MID == ". Here are the details:"
SUMMARY_PRE == "You have"
SUMMARY_MID == "orders with customer ID"
SUMMARY_POST == ". Here's a summary: ..."
NOT_FOUND_CUSTOMER_PRE == "I couldn't find any orders with customer ID"

\* ------------------------------------- replies of the language model (llm)
LLM_PLAIN == "Here is a joke about parcels."
LLM_THANKS == "Thanks for asking! Anything else?"
LLM_AGENT == "You may want to contact an agent."
LLM_SERVICE_TROUBLE_MSG == "I'm having trouble processing your request. Could you please try again or rephrase your question?"
LLM_ORDER == "Your order e481f51cbdc54678b7cc49136f2d6af7 is on its way."

\* ------------------------------- phrases written by the manager's agents
HR_ASK_NAME == "Okay, I can help connect you with a human representative. First, could you please provide your full name?"
HR_EMPTY_NAME == "Please provide your full name so I can create the request."
HR_THANKS_PRE == "Thanks,"
HR_ASK_EMAIL_POST == "! Now, could you please provide your email address?"
HR_INVALID_EMAIL == "That doesn't look like a valid email address. Could you please provide your email?"
HR_ASK_PHONE == "Got it. Lastly, could you provide a phone number? You can also say 'skip' if you prefer not to."
HR_MISSED == "I seem to have missed some details. Let's start over. Could you please provide your full name?"
HR_DONE_PRE == "Thank you,"
HR_DONE_MID == "! I've created a request with your details (Email:"
HR_DONE_PHONE == ", Phone:"
HR_DONE_POST == "). A member of our team will reach out to you shortly."
HR_SAVE_FAILED == "I'm sorry, there was an issue saving your request. Please try asking again in a moment."
HR_ALREADY == "I've already logged your request for assistance. Our team will be in touch soon!"
HR_UNEXPECTED == "I encountered an unexpected error while handling your request. Please try asking for help again."
ORDER_AGENT_ERROR == "Sorry, I encountered an error while checking the order status."
ORDER_AGENT_ASK_ID == "Okay, I can help with that. Please provide the 32-character alphanumeric order ID found in your confirmation email."
POLICY_TEXT == "general_return_policy text"
MANAGER_FALLBACK == "I'm sorry, I'm not sure how to handle that specific request. Can I help with order status, return policies, or connecting you to a human representative?"
GENERATED == "text generated by the llm"
INITIAL_WELCOME_MESSAGE == "Welcome! How can I help you today?"
USER_PLACEHOLDER_MESSAGE == "..."
SERVICES_TROUBLE_MSG == "I'm sorry, but I'm having trouble accessing my services right now. Please try again later."
PROCESSING_ERROR_MSG == "I encountered an error processing your request."
DEFAULT_ERROR_MESSAGE == "I'm sorry, an internal error occurred. Please try again."
ORDER_SERVICE_DETAILS_PRE == "Order ID: "
ORDER_SERVICE_NOT_FOUND_PRE == "Sorry, I couldn't find any order with the ID '"
ORDER_SERVICE_NOT_FOUND_POST == "'. Please double-check the ID."

\* --------------------------------------------------------- text operators
\* html.escape of one phrase
HtmlEscapePhrase(p) == IF p = TOM_AND_ANN THEN "Tom &amp; Ann" ELSE p
HtmlEscape(text) == [i \in DOMAIN text |-> HtmlEscapePhrase(text[i])]

\* str.lower() of one phrase: only the phrases typed in upper case change.
LowerPhrase(p) ==
  CASE p = NAME -> "jane doe"
    [] p = TOM_AND_ANN -> "tom & ann"
    [] p = MIXED_ID -> "qrs123def456tuv789jkl012mno345p0"
    [] OTHER -> p

\* The keywords of the code's keyword lists that occur as substrings of the
\* lower-cased phrase p.
Kw(p) ==
  CASE p = NEVERMIND -> {"nevermind"}
    [] p = ORDER_STATUS_Q -> {"order", "order status", "status"}
    [] p = RETURN_POLICY_Q -> {"policy", "return", "return policy"}
    [] p = TALK_TO_AGENT -> {"agent", "talk to agent"}
    [] p = HELLO -> {"hello"}
    [] p = THANKS -> {"thanks"}
    [] p = CUSTOMER_ID_PROMPT -> {"customer id", "order", "order status", "status"}
    [] p = CANCELED_MSG -> {"cancel", "human representative", "representative"}
    [] p = RETURN_POLICY_FAQ -> {"hi", "policy", "return", "return policy", "shipping", "shipping cost"}
    [] p = SHIPPING_FAQ -> {"hi", "order", "policy", "shipping", "shipping policy", "track", "where"}
    [] p = PAYMENT_FAQ -> {"credit card", "debit card", "gift card", "hi", "payment method", "payment option", "paypal", "store credit"}
    [] p = WARRANTY_FAQ -> {"order", "policy", "warranty", "warranty policy"}
    [] p = CANCELLATION_FAQ -> {"cancel", "hi", "order", "payment method", "return"}
    [] p = GIFT_CARD_FAQ -> {"gift card", "gift card balance", "hi", "shipping"}
    [] p = CONTACT_FAQ -> {"contact info", "contact information", "order", "representative"}
    [] p = ASK_NAME_MSG -> {"human representative", "representative"}
    [] p = THANK_YOU_PRE -> {"thank you"}
    [] p = ASK_EMAIL_POST -> {"email address"}
    [] p = ASK_PHONE_MSG -> {"phone number", "thank you"}
    [] p = DONE_PRE -> {"representative", "thank you"}
    [] p = DONE_POST -> {"hi"}
    [] p = ORDER_INFO_PRE -> {"order"}
    [] p = STATUS_DELIVERED -> {"order", "status"}
    [] p = STATUS_SHIPPED -> {"hi", "order", "status", "track"}
    [] p = FOUND_ONE_CUSTOMER_PRE -> {"customer id", "order"}
    [] p = FOUND_MANY_CUSTOMER_MID -> {"customer id", "order"}
    [] p = NOT_FOUND_PRE -> {"order"}
    [] p = ORDER_STATUS_PROMPT -> {"customer id", "hi", "order", "order status", "status"}
    [] p = GREETING_MSG -> {"hello", "hi", "human representative", "order", "order status", "policies", "representative", "return", "shipping", "status"}
    [] p = GOODBYE_MSG -> {"thank you"}
    [] p = GRAPH_FALLBACK_MSG -> {"hi", "human representative", "order", "order status", "policy", "representative", "return", "return policy", "shipping", "status"}
    [] p = NODE_ID_PROMPT -> {"customer id", "order", "order status", "status"}
    [] p = NODE_NOT_FOUND_PRE -> {"order"}
    [] p = NODE_FOUND_ONE_CUSTOMER -> {"customer id", "order"}
    [] p = NODE_FOUND_MANY_CUSTOMER -> {"customer id", "order", "status"}
    [] p = NODE_FOUND_MANY_VECTOR -> {"customer id", "order"}
    [] p = SUMMARY_ONE_PRE -> {"customer id", "order"}
    [] p = SUMMARY_MID -> {"customer id", "order"}
    [] p = SUMMARY_POST -> {"hi", "order", "status"}
    [] p = NOT_FOUND_CUSTOMER_PRE -> {"customer id", "order"}
    [] p = LLM_THANKS -> {"hi", "thanks"}
    [] p = LLM_AGENT -> {"agent"}
    [] p = LLM_ORDER -> {"order"}
    [] OTHER -> {}

\* The words of str.split() of the lower-cased phrase p that the code tests.
Words(p) ==
  CASE p = TALK_TO_AGENT -> {"agent"}
    [] p = HUMAN -> {"human"}
    [] p = CANCELED_MSG -> {"human"}
    [] p = ASK_NAME_MSG -> {"human"}
    [] p = DONE_PRE -> {"representative"}
    [] p = GREETING_MSG -> {"human"}
    [] p = GRAPH_FALLBACK_MSG -> {"human"}
    [] OTHER -> {}

\* re.search(r'\b([a-f0-9]{32})\b', p).group(1) for one phrase, "" for no match.
Hex32(p) ==
  CASE p \in {ORDER_ID_1, ORDER_ID_2, CUSTOMER_ID_1} -> p
    [] p = ORDER_STATUS_PROMPT -> ORDER_ID_1
    [] p = LLM_ORDER -> ORDER_ID_1
    [] OTHER -> ""

Lower(text) == [i \in DOMAIN text |-> LowerPhrase(text[i])]

\* phrase in text  (substring test)
Has(text, kw) == \E i \in DOMAIN text : kw \in Kw(text[i])

\* any(k in text for k in kws)
AnyIn(kws, text) == \E k \in kws : Has(text, k)

\* any(w in text.split() for w in ws)
AnyWord(ws, text) == \E i \in DOMAIN text : Words(text[i]) \cap ws # {}

\* re.search(r'\b([a-f0-9]{32})\b', text): index of the first matching phrase, 0 for none
HexPos(text) ==
  IF \E i \in DOMAIN text : Hex32(text[i]) # ""
  THEN CHOOSE i \in DOMAIN text : Hex32(text[i]) # "" /\ \A j \in 1..(i-1) : Hex32(text[j]) = ""
  ELSE 0

HasHex(text) == HexPos(text) # 0
HexGroup(text) == Hex32(text[HexPos(text)])

\* --------------------------------------------------------------- variables
VARIABLES
  app,             \* which application runs: "chatbot" (chat_with_user), "manager", or "app" (app.py around chat_with_user)
  chat_state,      \* the ChatbotState dict the caller threads through chat_with_user
  contact_csv,     \* rows of data/contact_requests.csv
  pc,              \* "idle" between calls, else the graph node about to run
  channels,        \* key values of the running graph (all keys but messages)
  steps,           \* graph nodes run by the current invoke
  llm_replies,     \* texts continue_conversation appended during the current invoke
  turns,           \* calls made so far
  last_input,      \* the user input of the current or last call
  state_before,    \* chat_state as it was when that call began
  handler,         \* the branch that handled that call
  outcome,         \* "returned", "raised" (an exception left the call), "running" or "none"
  orders_df,       \* rows of the orders dataset, in iteration order
  vector_collection, \* rows of the persistent vector collection, in the order a query returns them
  vector_healthy,  \* does a query of the vector collection answer (TRUE) or raise (FALSE)
  lru_cache,       \* results kept by functools.lru_cache for the cached_get_* functions, by function and id
  vector_queries,  \* the metadata queries the current or last call sent to the vector collection
  generation       \* the free-form generation of the last step: llm.invoke calls and the text produced

chatvars == <<chat_state, contact_csv, pc, channels, steps, llm_replies, last_input, state_before, handler, outcome>>
datavars == <<orders_df, vector_collection, vector_healthy, lru_cache>>

\* ------------------------------------------------------ order reference data
\* Rows of the orders dataset in iteration order (load_order_data): the
\* dataset of the sessions that are not about the dataset.
Orders == <<
  [order_id |-> ORDER_ID_1, customer_id |-> CUSTOMER_ID_1, order_status |-> "delivered", order_purchase_timestamp |-> 1],
  [order_id |-> ORDER_ID_2, customer_id |-> CUSTOMER_ID_1, order_status |-> "shipped", order_purchase_timestamp |-> 2] >>

\* create_order_index: order_index[order_id] is the last row with that id,
\* customer_index[customer_id] the rows of that customer in dataset order.
InOrderIndex(id) == \E i \in DOMAIN orders_df : orders_df[i].order_id = id
order_index(id) ==
  orders_df[CHOOSE i \in DOMAIN orders_df : orders_df[i].order_id = id
                    /\ \A j \in DOMAIN orders_df : orders_df[j].order_id = id => j <= i]
IsCustomer(row, id) == row.customer_id = id
customer_index(id) == SelectSeq(orders_df, LAMBDA row : IsCustomer(row, id))
InCustomerIndex(id) == customer_index(id) # <<>>

\* sorted(rows, key=purchase timestamp, reverse=True)[0]: the sort is stable,
\* so among rows with the latest timestamp the first in dataset order wins.
MostRecent_LastOnTie(rows) ==
  rows[CHOOSE i \in DOMAIN rows :
         /\ \A j \in DOMAIN rows : rows[j].order_purchase_timestamp <= rows[i].order_purchase_timestamp
         /\ \A j \in (i+1)..Len(rows) : rows[j].order_purchase_timestamp < rows[i].order_purchase_timestamp]
MostRecent(rows) ==
  rows[CHOOSE i \in DOMAIN rows :
         /\ \A j \in DOMAIN rows : rows[j].order_purchase_timestamp <= rows[i].order_purchase_timestamp
         /\ \A j \in 1..(i-1) : rows[j].order_purchase_timestamp < rows[i].order_purchase_timestamp]

StatusText(status) == IF status = "delivered" THEN STATUS_DELIVERED ELSE STATUS_SHIPPED
format_order_details(order_id, status) == <<ORDER_INFO_PRE, order_id, StatusText(status)>>

\* ------------------------------------------------------------- chat state
Msg(role, content) == [role |-> role, content |-> content]
Reply(s, content) == [s EXCEPT !.messages = Append(@, Msg("assistant", content))]

InitialChatState ==
  [messages |-> <<>>, order_lookup_attempted |-> FALSE, current_order_id |-> None,
   needs_human_agent |-> FALSE, contact_info_collected |-> FALSE,
   customer_name |-> None, customer_email |-> None, customer_phone |-> None,
   contact_step |-> 0]

CANCEL_KEYWORDS == {"cancel", "nevermind", "never mind", "stop", "go back", "different question"}
CUSTOMER_ID_KEYWORDS == {"customer id", "my id", "delivery status", "order status", "track"}
HUMAN_KEYWORDS ==
  {"speak to a human", "talk to a human", "human representative", "real person",
   "speak to an agent", "talk to a representative", "connect me with a human",
   "human agent please", "agent", "representative", "connect me to an agent",
   "need an agent", "talk to agent", "speak to agent"}
CUSTOMER_LOOKUP_PHRASES == {"my customer id", "customer id", "my id", "how many orders", "my orders"}
GREETINGS == {"hello", "hi", "hey", "greetings", "good morning", "good afternoon", "good evening"}
GOODBYES == {"thank you", "thanks", "bye", "goodbye", "see you", "that's all"}

\* The FAQ blocks of chat_with_user in the order they are tested.
FAQS == <<
  [phrases |-> {"return policy", "policy on return", "can i return", "how to return", "policy for returns", "returned items"},
   response |-> <<RETURN_POLICY_FAQ>>],
  [phrases |-> {"shipping policy", "delivery policy", "shipping time", "how long shipping", "shipping cost"},
   response |-> <<SHIPPING_FAQ>>],
  [phrases |-> {"payment method", "payment option", "how to pay", "accept payment", "credit card", "debit card", "paypal"},
   response |-> <<PAYMENT_FAQ>>],
  [phrases |-> {"warranty", "guarantee", "product warranty", "warranty policy", "warranty coverage"},
   response |-> <<WARRANTY_FAQ>>],
  [phrases |-> {"cancel order", "cancellation policy", "how to cancel", "cancel my purchase", "stop my order"},
   response |-> <<CANCELLATION_FAQ>>],
  [phrases |-> {"gift card", "gift certificate", "store credit", "gift card balance", "redeem gift card"},
   response |-> <<GIFT_CARD_FAQ>>],
  [phrases |-> {"contact info", "contact information", "phone number", "email address", "contact us", "customer service contact"},
   response |-> <<CONTACT_FAQ>>] >>

\* Index of the first FAQ block whose trigger occurs in the text, 0 for none.
FaqIndex(text) ==
  IF \E i \in DOMAIN FAQS : AnyIn(FAQS[i].phrases, text)
  THEN CHOOSE i \in DOMAIN FAQS : AnyIn(FAQS[i].phrases, text)
                                  /\ \A j \in 1..(i-1) : ~AnyIn(FAQS[j].phrases, text)
  ELSE 0

\* One result of the part of chat_with_user that runs before the graph.
Result(s, h, rows, out) == [state |-> s, handler |-> h, rows |-> rows, outcome |-> out]

\* chat_with_user, cancellation block.
CancelActive_AfterCompletion(s, ul) ==
  /\ s.needs_human_agent
  /\ (AnyIn(CANCEL_KEYWORDS, ul) \/ AnyIn(CUSTOMER_ID_KEYWORDS, ul))
CancelActive(s, ul) ==
  /\ s.needs_human_agent /\ ~s.contact_info_collected
  /\ (AnyIn(CANCEL_KEYWORDS, ul) \/ AnyIn(CUSTOMER_ID_KEYWORDS, ul))

CancelFlow(s, ul) ==
  LET r == [s EXCEPT !.needs_human_agent = FALSE, !.contact_step = 0]
  IN IF AnyIn(CUSTOMER_ID_KEYWORDS, ul)
     THEN Reply(r, <<CUSTOMER_ID_PROMPT>>)
     ELSE Reply(r, <<CANCELED_MSG>>)

\* chat_with_user, "Direct handling of human agent requests".
StartHandoff(s) ==
  Reply([s EXCEPT !.needs_human_agent = TRUE, !.contact_step = 1], <<ASK_NAME_MSG>>)

\* chat_with_user, "Direct handling of contact info collection", steps 1 and 2.
StoreName(s, u) ==
  Reply([s EXCEPT !.customer_name = u, !.contact_step = 2],
        <<THANK_YOU_PRE>> \o u \o <<ASK_EMAIL_POST>>)
StoreEmail(s, u) ==
  Reply([s EXCEPT !.customer_email = u, !.contact_step = 3], <<ASK_PHONE_MSG>>)

\* ... step 3: the three assignments come before the file is opened, the
\* reply after the row is written; an error of the file system leaves the call
\* in between.
StorePhone_NoPhone(s, u) ==
  [s EXCEPT !.contact_info_collected = TRUE, !.contact_step = 4]
StorePhone(s, u) ==
  [s EXCEPT !.customer_phone = u, !.contact_info_collected = TRUE, !.contact_step = 4]
ContactRow(s) == [name |-> s.customer_name, email |-> s.customer_email, phone |-> s.customer_phone]
DoneMessage(s) == <<DONE_PRE>> \o s.customer_email \o <<DONE_OR>> \o s.customer_phone \o <<DONE_POST>>

\* chat_with_user, "Direct handling of order lookups with IDs" (the try body).
DirectLookup(s, id) ==
  IF InOrderIndex(id)
  THEN [Reply(s, format_order_details(id, order_index(id).order_status))
          EXCEPT !.order_lookup_attempted = TRUE, !.current_order_id = <<id>>]
  ELSE IF InCustomerIndex(id)
  THEN LET customer_orders == customer_index(id)
           order_count == Len(customer_orders)
           picked == IF order_count = 1 THEN customer_orders[1] ELSE MostRecent(customer_orders)
           response == IF order_count = 1
                       THEN <<FOUND_ONE_CUSTOMER_PRE, id>> \o format_order_details(picked.order_id, picked.order_status)
                       ELSE <<FOUND_PRE, ToString(order_count), FOUND_MANY_CUSTOMER_MID, id, MOST_RECENT>>
                            \o format_order_details(picked.order_id, picked.order_status)
       IN [Reply(s, response)
             EXCEPT !.order_lookup_attempted = TRUE,
                    !.current_order_id = IF order_count = 1 THEN <<picked.order_id>> ELSE None]
  ELSE [Reply(s, <<NOT_FOUND_PRE, id, NOT_FOUND_POST>>) EXCEPT !.order_lookup_attempted = TRUE]

\* chat_with_user, "Customer ID lookup without explicit order ID pattern" (the try body).
CustomerLookup(s, id) ==
  IF InCustomerIndex(id)
  THEN LET customer_orders == customer_index(id)
           order_count == Len(customer_orders)
           response == IF order_count = 1
                       THEN <<SUMMARY_ONE_PRE, id, SUMMARY_ONE_MID>>
                            \o format_order_details(customer_orders[1].order_id, customer_orders[1].order_status)
                       ELSE <<SUMMARY_PRE, ToString(order_count), SUMMARY_MID, id, SUMMARY_POST>>
       IN [Reply(s, response) EXCEPT !.order_lookup_attempted = TRUE]
  ELSE [Reply(s, <<NOT_FOUND_CUSTOMER_PRE, id, NOT_FOUND_POST>>) EXCEPT !.order_lookup_attempted = TRUE]

\* What the collaborators do during one call: csv_ok - the contact file can
\* be written; data_ok, data_ok2 - the order data loads in the first and in
\* the second lookup block.
Envs == [csv_ok : BOOLEAN, data_ok : BOOLEAN, data_ok2 : BOOLEAN]

\* chat_with_user after the FAQ blocks and the contact steps: lookups, order
\* status prompt, greeting, goodbye, else the graph.
DirectRest(s, u, ul, env) ==
  IF ~s.order_lookup_attempted /\ HasHex(u) /\ env.data_ok
  THEN Result(DirectLookup(s, HexGroup(u)), "order_lookup", <<>>, "returned")
  ELSE IF ~s.order_lookup_attempted /\ AnyIn(CUSTOMER_LOOKUP_PHRASES, ul) /\ HasHex(u) /\ env.data_ok2
  THEN Result(CustomerLookup(s, HexGroup(u)), "customer_lookup", <<>>, "returned")
  ELSE IF ~s.order_lookup_attempted /\ Has(ul, "order status")
  THEN Result(Reply(s, <<ORDER_STATUS_PROMPT>>), "order_prompt", <<>>, "returned")
  ELSE IF AnyIn(GREETINGS, ul)
  THEN Result(Reply(s, <<GREETING_MSG>>), "greeting", <<>>, "returned")
  ELSE IF AnyIn(GOODBYES, ul)
  THEN Result(Reply(s, <<GOODBYE_MSG>>), "goodbye", <<>>, "returned")
  ELSE Result(s, "graph", <<>>, "running")

\* chat_with_user, the direct contact steps.
ContactStep(s, u, env) ==
  IF s.contact_step = 1 THEN Result(StoreName(s, u), "contact_step", <<>>, "returned")
  ELSE IF s.contact_step = 2 THEN Result(StoreEmail(s, u), "contact_step", <<>>, "returned")
  ELSE LET t == StorePhone(s, u)
       IN IF env.csv_ok
          THEN Result(Reply(t, DoneMessage(t)), "contact_step", <<ContactRow(t)>>, "returned")
          ELSE Result(t, "contact_step", <<>>, "raised")

\* chat_with_user up to the point where it either returns, raises or invokes
\* the graph.  s0 is the state passed in, u the user input.
Direct_FaqBeforeLookupOnly(s0, u, env) ==
  LET s == [s0 EXCEPT !.messages = Append(@, Msg("user", u))]
      ul == Lower(u)
  IN IF CancelActive(s, ul)
     THEN Result(CancelFlow(s, ul), "cancel", <<>>, "returned")
     ELSE IF FaqIndex(ul) # 0 /\ ~s.order_lookup_attempted
     THEN Result(Reply(s, FAQS[FaqIndex(ul)].response), "faq", <<>>, "returned")
     ELSE IF AnyIn(HUMAN_KEYWORDS, ul) /\ ~s.needs_human_agent
     THEN Result(StartHandoff(s), "handoff_start", <<>>, "returned")
     ELSE IF s.needs_human_agent /\ ~s.contact_info_collected /\ s.contact_step \in 1..3
     THEN ContactStep(s, u, env)
     ELSE DirectRest(s, u, ul, env)
Direct(s0, u, env) ==
  LET s == [s0 EXCEPT !.messages = Append(@, Msg("user", u))]
      ul == Lower(u)
  IN IF CancelActive(s, ul)
     THEN Result(CancelFlow(s, ul), "cancel", <<>>, "returned")
     ELSE IF FaqIndex(ul) # 0
     THEN Result(Reply(s, FAQS[FaqIndex(ul)].response), "faq", <<>>, "returned")
     ELSE IF AnyIn(HUMAN_KEYWORDS, ul) /\ ~s.needs_human_agent
     THEN Result(StartHandoff(s), "handoff_start", <<>>, "returned")
     ELSE IF s.needs_human_agent /\ ~s.contact_info_collected /\ s.contact_step \in 1..3
     THEN ContactStep(s, u, env)
     ELSE DirectRest(s, u, ul, env)

\* ----------------------------------------------------------------- graph
\* The nodes read the state of the graph: the keys in `channels` and the
\* messages list.  state.copy() is shallow, so a node's append lands in the one
\* messages list that chat_state also holds; the other keys reach the graph's
\* state only through the dict the node returns.
Keys(s) == [k \in (DOMAIN s) \ {"messages"} |-> s[k]]
WithMessages(ch, msgs) == [k \in DOMAIN ch \cup {"messages"} |-> IF k = "messages" THEN msgs ELSE ch[k]]
Last(msgs) == msgs[Len(msgs)].content
Say(msgs, content) == Append(msgs, Msg("assistant", content))
NodeOut(ch, msgs) == [ch |-> ch, msgs |-> msgs]

\* str.strip(): drop leading and trailing whitespace phrases.
RECURSIVE Strip(_)
Strip(text) ==
  IF text = <<>> THEN <<>>
  ELSE IF Head(text) = WS THEN Strip(Tail(text))
  ELSE IF text[Len(text)] = WS THEN Strip(SubSeq(text, 1, Len(text) - 1))
  ELSE text

CC_HUMAN_PHRASES ==
  {"speak to a human", "talk to a human", "human representative", "real person",
   "speak to an agent", "talk to a representative", "connect me with a human", "human agent please"}
STANDALONE_WORDS == {"human", "representative", "agent", "person"}
POLICY_WORDS == {"policy", "policies", "return", "shipping", "warranty"}
ROUTER_HUMAN_KEYWORDS == CC_HUMAN_PHRASES \cup {"agent", "representative"}
NODE_CANCEL_KEYWORDS == {"cancel", "nevermind", "never mind", "stop", "go back"}

\* continue_conversation: the test for a request to speak to a human.
NeedsHuman(last) ==
  \/ AnyIn(CC_HUMAN_PHRASES, last)
  \/ AnyWord(STANDALONE_WORDS, last) /\ ~AnyIn(POLICY_WORDS, last)

\* continue_conversation; response_text is what the llm calls (with the
\* fallbacks) produced.
continue_conversation(ch, msgs, response_text) ==
  IF NeedsHuman(Lower(Last(msgs)))
  THEN NodeOut([ch EXCEPT !.needs_human_agent = TRUE, !.contact_step = 0], msgs)
  ELSE NodeOut(ch, Say(msgs, response_text))

\* The texts the model can reply with.
LlmReplies == {<<LLM_PLAIN>>, <<LLM_THANKS>>, <<LLM_AGENT>>, <<LLM_ORDER>>}

\* What successive llm.invoke calls do during one generation: outs[i] is
\* "ok" when the i-th call replies, "raise" when it raises.
LlmOutcomes == [1..3 -> {"ok", "raise"}]
LlmHealthy == {outs \in LlmOutcomes : \A i \in 1..3 : outs[i] = "ok"}
LlmCall(prompt, result) == [prompt |-> prompt, result |-> result]
NoGeneration == [by |-> "none", calls |-> <<>>, text |-> <<>>]
GenerationBy(by, g) == [by |-> by, calls |-> g.calls, text |-> g.text]

\* The try/except/try/except around llm.invoke: the full prompt, on an
\* exception the simplified prompt, on a second exception the static text.
Generate_NoRetry(outs, text, static) ==
  IF outs[1] = "ok"
  THEN [calls |-> <<LlmCall("full", outs[1])>>, text |-> text]
  ELSE [calls |-> <<LlmCall("full", outs[1])>>, text |-> static]
Generate(outs, text, static) ==
  IF outs[1] = "ok"
  THEN [calls |-> <<LlmCall("full", outs[1])>>, text |-> text]
  ELSE IF outs[2] = "ok"
  THEN [calls |-> <<LlmCall("full", outs[1]), LlmCall("simple", outs[2])>>, text |-> text]
  ELSE [calls |-> <<LlmCall("full", outs[1]), LlmCall("simple", outs[2])>>, text |-> static]

\* LLMService.generate_response on a non-empty messages list
LLMService_generate_response(outs, text) == Generate(outs, text, <<LLM_SERVICE_TROUBLE_MSG>>)

\* collect_contact_info up to the file write of step 3.
collect_contact_info(ch, msgs) ==
  LET last_message == Last(msgs)
      last_message_lower == Lower(last_message)
  IN IF AnyIn(NODE_CANCEL_KEYWORDS, last_message_lower) \/ AnyIn(CUSTOMER_ID_KEYWORDS, last_message_lower)
     THEN NodeOut([ch EXCEPT !.needs_human_agent = FALSE, !.contact_step = 0],
                  Say(msgs, IF AnyIn(CUSTOMER_ID_KEYWORDS, last_message_lower)
                            THEN <<CUSTOMER_ID_PROMPT>> ELSE <<CANCELED_MSG>>))
     ELSE IF ch.contact_step = 0
     THEN NodeOut([ch EXCEPT !.contact_step = 1], Say(msgs, <<ASK_NAME_MSG>>))
     ELSE IF ch.contact_step = 1
     THEN NodeOut([ch EXCEPT !.customer_name = Strip(last_message), !.contact_step = 2],
                  Say(msgs, <<THANK_YOU_PRE>> \o Strip(last_message) \o <<ASK_EMAIL_POST>>))
     ELSE IF ch.contact_step = 2
     THEN NodeOut([ch EXCEPT !.customer_email = Strip(last_message), !.contact_step = 3],
                  Say(msgs, <<ASK_PHONE_MSG>>))
     ELSE IF ch.contact_step = 3
     THEN LET t == [ch EXCEPT !.customer_phone = Strip(last_message),
                              !.contact_info_collected = TRUE, !.contact_step = 4]
          IN NodeOut(t, Say(msgs, DoneMessage(t)))
     ELSE NodeOut(ch, msgs)

\* collect_contact_info writes a row exactly when it takes the step-3 branch.
CollectWrites(ch, msgs) ==
  /\ ~AnyIn(NODE_CANCEL_KEYWORDS, Lower(Last(msgs)))
  /\ ~AnyIn(CUSTOMER_ID_KEYWORDS, Lower(Last(msgs)))
  /\ ch.contact_step = 3

\* Rows the vector store answers by metadata filter (cached_get_order_by_id,
\* cached_get_orders_by_customer_id).  The collection is persistent: when it
\* was built from the dataset in use it holds the same rows (VectorOrders),
\* an older collection holds the rows it was built from.
VectorOrders == Orders
VectorOrder(id) == SelectSeq(vector_collection, LAMBDA row : row.order_id = id)
VectorCustomer(id) == SelectSeq(vector_collection, LAMBDA row : IsCustomer(row, id))

\* get_order_by_id, get_orders_by_customer_id: the rows the query returns;
\* a query that raises is caught and answered with None, or [] (both <<>> here).
get_order_by_id(order_id) == IF vector_healthy THEN VectorOrder(order_id) ELSE <<>>
get_orders_by_customer_id(customer_id) == IF vector_healthy THEN VectorCustomer(customer_id) ELSE <<>>

\* functools.lru_cache around a function: the kept result of an earlier call
\* with the same argument, else the result of calling the function now.
Cached(fn, id) == <<fn, id>> \in DOMAIN lru_cache
cached_get_order_by_id(order_id) ==
  IF Cached("get_order_by_id", order_id) THEN lru_cache[<<"get_order_by_id", order_id>>]
  ELSE get_order_by_id(order_id)
cached_get_orders_by_customer_id(customer_id) ==
  IF Cached("get_orders_by_customer_id", customer_id) THEN lru_cache[<<"get_orders_by_customer_id", customer_id>>]
  ELSE get_orders_by_customer_id(customer_id)

\* lookup_order: where the identifier is resolved, in the order the branches
\* are tested.
Resolve_CustomerFirst(id) ==
  IF InCustomerIndex(id) THEN "customer_index"
  ELSE IF InOrderIndex(id) THEN "order_index"
  ELSE IF cached_get_order_by_id(id) # <<>> THEN "vector_order"
  ELSE IF cached_get_orders_by_customer_id(id) # <<>> THEN "vector_customer"
  ELSE "none"
Resolve(id) ==
  IF InOrderIndex(id) THEN "order_index"
  ELSE IF InCustomerIndex(id) THEN "customer_index"
  ELSE IF cached_get_order_by_id(id) # <<>> THEN "vector_order"
  ELSE IF cached_get_orders_by_customer_id(id) # <<>> THEN "vector_customer"
  ELSE "none"

\* The cached_get_* calls lookup_order makes for the identifier.
CachedCalls(id) ==
  IF Resolve(id) \in {"order_index", "customer_index"} THEN <<>>
  ELSE IF Resolve(id) = "vector_order" THEN <<"get_order_by_id">>
  ELSE <<"get_order_by_id", "get_orders_by_customer_id">>

\* The metadata queries lookup_order sends for the identifier: one for each
\* cached_get_* call that finds no kept result.
VectorQueries(id) ==
  LET missed == SelectSeq(CachedCalls(id), LAMBDA fn : ~Cached(fn, id))
  IN [i \in DOMAIN missed |->
        [where |-> IF missed[i] = "get_order_by_id" THEN "order_id" ELSE "customer_id", value |-> id]]

\* The results lru_cache keeps after lookup_order ran for the identifier.
CacheAfter(id) ==
  LET calls == CachedCalls(id)
      keys == {<<calls[i], id>> : i \in DOMAIN calls}
  IN [k \in DOMAIN lru_cache \cup keys |->
        IF k \in DOMAIN lru_cache THEN lru_cache[k]
        ELSE IF k[1] = "get_order_by_id" THEN get_order_by_id(id)
        ELSE get_orders_by_customer_id(id)]

\* lookup_order
lookup_order(ch, msgs) ==
  LET last_message == Last(msgs)
      found == HasHex(last_message)
      id == IF found THEN HexGroup(last_message) ELSE ""
      source == IF found THEN Resolve(id) ELSE "no_id"
      response ==
        IF ~found THEN <<NODE_ID_PROMPT>>
        ELSE IF source = "order_index" THEN format_order_details(id, order_index(id).order_status)
        ELSE IF source = "customer_index"
        THEN LET customer_orders == customer_index(id)
                 picked == IF Len(customer_orders) = 1 THEN customer_orders[1] ELSE MostRecent(customer_orders)
             IN IF Len(customer_orders) = 1
                THEN <<NODE_FOUND_ONE_CUSTOMER>> \o format_order_details(picked.order_id, picked.order_status)
                ELSE <<FOUND_PRE, ToString(Len(customer_orders)), NODE_FOUND_MANY_CUSTOMER>>
                     \o format_order_details(picked.order_id, picked.order_status)
        ELSE IF source = "vector_order"
        THEN format_order_details(id, cached_get_order_by_id(id)[1].order_status)
        ELSE IF source = "vector_customer"
        THEN LET customer_orders == cached_get_orders_by_customer_id(id)
                 picked == IF Len(customer_orders) = 1 THEN customer_orders[1] ELSE MostRecent(customer_orders)
             IN IF Len(customer_orders) = 1
                THEN <<NODE_FOUND_ONE_CUSTOMER>> \o format_order_details(picked.order_id, picked.order_status)
                ELSE <<FOUND_PRE, ToString(Len(customer_orders)), NODE_FOUND_MANY_VECTOR>>
                     \o format_order_details(picked.order_id, picked.order_status)
        ELSE <<NODE_NOT_FOUND_PRE, id, NOT_FOUND_POST>>
  IN NodeOut([ch EXCEPT !.order_lookup_attempted = TRUE,
                        !.current_order_id = IF found THEN <<id>> ELSE None],
             Say(msgs, response))

\* router.  It assigns needs_human_agent and contact_step on the dict it was
\* handed; that dict is the router's own view of the state, so the
\* assignments reach no node.
router(ch, msgs) ==
  LET last_message == Lower(Last(msgs))
  IN IF AnyIn(ROUTER_HUMAN_KEYWORDS, last_message) /\ ~ch.needs_human_agent THEN "collect_contact_info"
     ELSE IF ch.needs_human_agent /\ ~ch.contact_info_collected THEN "collect_contact_info"
     ELSE IF Has(last_message, "bye") \/ Has(last_message, "thank you") \/ Has(last_message, "thanks") THEN "END"
     ELSE IF ch.needs_human_agent /\ ch.contact_info_collected THEN "END"
     ELSE IF /\ ~ch.order_lookup_attempted
             /\ \/ Has(last_message, "order") /\ (Has(last_message, "status") \/ Has(last_message, "where") \/ Has(last_message, "track"))
                \/ HasHex(last_message)
          THEN "lookup_order"
     ELSE "continue_conversation"

\* ======================================================== the manager
VARIABLES
  conversation_states,  \* ConversationManager.conversation_states: session_id -> ConversationState
  contact_db,           \* rows of the contact_requests table
  save_calls,           \* the calls of save_contact_request so far, with their results
  response,             \* the 'response' of the last handle_message that returned
  order_service_calls,  \* the ids the last handle_message passed to get_order_status_by_id
  llm_calls,            \* the calls the last handle_message made to the language model service, with their arguments
  in_flight,            \* the handle_message coroutines suspended at an await, in the order they were called
  ui                    \* the chat window of gradio_app: the history shown and whether the input controls are enabled

managervars == <<conversation_states, contact_db, save_calls, response, order_service_calls, llm_calls, in_flight, ui>>
vars == <<app, turns, chatvars, managervars, datavars, vector_queries, generation>>

STATE_ASK_NAME == "ask_name"
STATE_ASK_EMAIL == "ask_email"
STATE_ASK_PHONE == "ask_phone"
STATE_CONFIRM == "confirm"
STATE_COMPLETE == "complete"
KEY_HUMAN_REP_STEP == "human_rep_step"
KEY_HUMAN_REP_NAME == "human_rep_name"
KEY_HUMAN_REP_EMAIL == "human_rep_email"
KEY_HUMAN_REP_PHONE == "human_rep_phone"
MAX_CONVERSATION_HISTORY == 10

\* Python dicts as functions: d.get(k), d.update(u), d.pop(k, None).
Get(d, k, default) == IF k \in DOMAIN d THEN d[k] ELSE default
Update(d, u) == [k \in DOMAIN d \cup DOMAIN u |-> IF k \in DOMAIN u THEN u[k] ELSE d[k]]
Pop(d, k) == [x \in (DOMAIN d) \ {k} |-> d[x]]
EmptyDict == [k \in {} |-> None]

\* '@' in p, any(c.isdigit() for c in p), p.split()[0]
HasAt(p) == p = EMAIL
HasDigit(p) == p \in {PHONE, ORDER_ID_1, ORDER_ID_2, CUSTOMER_ID_1, MIXED_ID, LONG_RUN}
FirstWord(p) == IF p = NAME THEN "Jane" ELSE IF p \in {TOM_AND_ANN, HtmlEscapePhrase(TOM_AND_ANN)} THEN "Tom" ELSE p
ContainsAt(text) == \E i \in DOMAIN text : HasAt(text[i])
ContainsDigit(text) == \E i \in DOMAIN text : HasDigit(text[i])

\* ConversationState(session_id=...)
NewConversationState ==
  [history |-> <<>>, current_intent |-> "None", last_agent |-> "None", extracted_entities |-> EmptyDict]

\* ConversationState.add_message
add_message(state, role, text) ==
  [state EXCEPT !.history = Append(@, [role |-> role, parts |-> <<text>>])]

\* _get_or_create_state without lines 119-121: the history is never cut.
get_or_create_state_Untrimmed(states, sid) ==
  IF sid \in DOMAIN states THEN states[sid] ELSE NewConversationState

\* ConversationManager._get_or_create_state: the stored state of the session
\* after creation and trimming.
get_or_create_state(states, sid) ==
  LET state == IF sid \in DOMAIN states THEN states[sid] ELSE NewConversationState
      n == Len(state.history)
  IN IF n > MAX_CONVERSATION_HISTORY
     THEN [state EXCEPT !.history = SubSeq(@, n - MAX_CONVERSATION_HISTORY + 1, n)]
     ELSE state

\* HumanRepAgent._get_current_step, _update_step
get_current_step(state) == Get(state.extracted_entities, KEY_HUMAN_REP_STEP, STATE_ASK_NAME)
update_step(state, step, data) ==
  [state EXCEPT !.extracted_entities = Update(Update(@, [k \in {KEY_HUMAN_REP_STEP} |-> step]), data)]

\* The result of an agent: the state it leaves, its response and the
\* save_contact_request calls it made.
AgentOut(state, resp, calls) == [state |-> state, response |-> resp, calls |-> calls]
SaveCall(name, email, phone, result) == [full_name |-> name, email |-> email, phone_number |-> phone, result |-> result]

\* The except branch of HumanRepAgent.process.
HumanRepFailed(state, calls) ==
  AgentOut([state EXCEPT !.extracted_entities =
              Pop(Pop(Pop(Pop(@, KEY_HUMAN_REP_STEP), KEY_HUMAN_REP_NAME), KEY_HUMAN_REP_EMAIL), KEY_HUMAN_REP_PHONE)],
           <<HR_UNEXPECTED>>, calls)

\* HumanRepAgent.process at STATE_CONFIRM: the phone kept from the stripped,
\* lower-cased input; 'skip' and an input without a digit both give None.
CollectedPhone_NoDigitCheck(phone) == IF phone # <<SKIP>> THEN phone ELSE None
CollectedPhone_Dropped(phone) == None
CollectedPhone(phone) == IF phone # <<SKIP>> /\ ContainsDigit(phone) THEN phone ELSE None

\* ... the call of save_contact_request and what follows it.  save is what the
\* call does: "ok" (row committed, True), "false" (database error, False) or
\* "raise" (SessionLocal() itself raises).
HumanRepSaved_AlwaysThanks(state, name, email, collected_phone, save) ==
  IF save = "raise" THEN HumanRepFailed(state, <<SaveCall(name, email, collected_phone, "raise")>>)
  ELSE AgentOut(update_step(state, STATE_COMPLETE, EmptyDict),
                <<HR_DONE_PRE, FirstWord(name[1]), HR_DONE_MID>> \o email
                  \o (IF collected_phone # None THEN <<HR_DONE_PHONE>> \o collected_phone ELSE <<>>)
                  \o <<HR_DONE_POST>>,
                <<SaveCall(name, email, collected_phone, save)>>)
HumanRepSaved(state, name, email, collected_phone, save) ==
  IF save = "raise" THEN HumanRepFailed(state, <<SaveCall(name, email, collected_phone, "raise")>>)
  ELSE IF save = "ok"
  THEN AgentOut(update_step(state, STATE_COMPLETE, EmptyDict),
                <<HR_DONE_PRE, FirstWord(name[1]), HR_DONE_MID>> \o email
                  \o (IF collected_phone # None THEN <<HR_DONE_PHONE>> \o collected_phone ELSE <<>>)
                  \o <<HR_DONE_POST>>,
                <<SaveCall(name, email, collected_phone, "ok")>>)
  ELSE AgentOut(state, <<HR_SAVE_FAILED>>, <<SaveCall(name, email, collected_phone, "false")>>)

\* ... the whole STATE_CONFIRM branch.
HumanRepConfirm(state, user_input, save) ==
  LET phone == Lower(Strip(user_input))
      collected_phone == CollectedPhone(phone)
      name == Get(state.extracted_entities, KEY_HUMAN_REP_NAME, None)
      email == Get(state.extracted_entities, KEY_HUMAN_REP_EMAIL, None)
  IN IF name \in {None, <<>>} \/ email \in {None, <<>>}
     THEN AgentOut([update_step(state, STATE_ASK_NAME, EmptyDict) EXCEPT !.extracted_entities =
                      Pop(Pop(Pop(@, KEY_HUMAN_REP_NAME), KEY_HUMAN_REP_EMAIL), KEY_HUMAN_REP_PHONE)],
                   <<HR_MISSED>>, <<>>)
     ELSE HumanRepSaved(state, name, email, collected_phone, save)

\* HumanRepAgent.process at STATE_COMPLETE.
HumanRepComplete_SavesAgain(state, user_input, save) == HumanRepConfirm(state, user_input, save)
HumanRepComplete(state, user_input, save) == AgentOut(state, <<HR_ALREADY>>, <<>>)

\* HumanRepAgent.process at STATE_ASK_PHONE: the test of the stripped input.
ValidEmail_AnyText(email) == email # <<>>
ValidEmail(email) == email # <<>> /\ ContainsAt(email)

\* HumanRepAgent.process
HumanRepAgent_process(state, user_input, save) ==
  LET current_step == get_current_step(state)
  IN IF current_step = STATE_ASK_NAME
     THEN AgentOut(update_step(state, STATE_ASK_EMAIL, EmptyDict), <<HR_ASK_NAME>>, <<>>)
     ELSE IF current_step = STATE_ASK_EMAIL
     THEN LET name == Strip(user_input)
          IN IF name = <<>>
             THEN AgentOut(state, <<HR_EMPTY_NAME>>, <<>>)
             ELSE AgentOut(update_step(state, STATE_ASK_PHONE, [k \in {KEY_HUMAN_REP_NAME} |-> name]),
                           <<HR_THANKS_PRE, FirstWord(name[1]), HR_ASK_EMAIL_POST>>, <<>>)
     ELSE IF current_step = STATE_ASK_PHONE
     THEN LET email == Strip(user_input)
          IN IF ~ValidEmail(email)
             THEN AgentOut(state, <<HR_INVALID_EMAIL>>, <<>>)
             ELSE AgentOut(update_step(state, STATE_CONFIRM, [k \in {KEY_HUMAN_REP_EMAIL} |-> email]),
                           <<HR_ASK_PHONE>>, <<>>)
     ELSE IF current_step = STATE_CONFIRM
     THEN HumanRepConfirm(state, user_input, save)
     ELSE IF current_step = STATE_COMPLETE
     THEN HumanRepComplete(state, user_input, save)
     ELSE AgentOut(state, <<"I'm sorry, something went wrong while processing your request for assistance.">>, <<>>)

\* ORDER_ID_PATTERN_SEARCH.findall(p)[0] for one phrase, "" for no match: the
\* pattern [a-zA-Z0-9]{32} has no boundaries, so it matches the first 32
\* characters of the first alphanumeric run of 32 characters or more.
AlnumRun32(p) ==
  CASE p \in {ORDER_ID_1, ORDER_ID_2, CUSTOMER_ID_1, MIXED_ID} -> p
    [] p = LONG_RUN -> "e481f51cbdc54678b7cc49136f2d6af7"
    [] p = ORDER_STATUS_PROMPT -> ORDER_ID_1
    [] p = LLM_ORDER -> ORDER_ID_1
    [] OTHER -> ""

\* extract_order_id: the stripped text itself when it is 32 alphanumeric
\* characters, else the first match of the pattern; None for no match.
extract_order_id(text) ==
  LET t == Strip(text)
  IN IF \E i \in DOMAIN t : AlnumRun32(t[i]) # ""
     THEN <<AlnumRun32(t[CHOOSE i \in DOMAIN t : AlnumRun32(t[i]) # ""
                         /\ \A j \in 1..(i-1) : AlnumRun32(t[j]) = ""])>>
     ELSE None

\* OrderService.get_order_status_by_id on a 32-character id: always a text,
\* the formatted details of the row of the orders table or the not-found
\* message naming the id.
get_order_status_by_id(order_id) ==
  IF InOrderIndex(order_id)
  THEN <<ORDER_SERVICE_DETAILS_PRE, order_id, StatusText(order_index(order_id).order_status)>>
  ELSE <<ORDER_SERVICE_NOT_FOUND_PRE, order_id, ORDER_SERVICE_NOT_FOUND_POST>>

\* What the agent answers for the service's result: a non-empty result goes
\* to format_order_details, which reads order.order_status and so raises on
\* a text; the agent's except branch answers.
OrderAnswer(order_id, order_data) ==
  IF order_data # <<>>
  THEN <<ORDER_AGENT_ERROR>>
  ELSE <<ORDER_SERVICE_NOT_FOUND_PRE, order_id, ORDER_SERVICE_NOT_FOUND_POST>>

\* OrderStatusAgent.process
OrderStatusAgent_process(state, user_input) ==
  LET order_id == extract_order_id(user_input)
  IN IF order_id # None
     THEN AgentOut(state, OrderAnswer(order_id[1], get_order_status_by_id(order_id[1])), <<>>)
     ELSE AgentOut(state, <<ORDER_AGENT_ASK_ID>>, <<>>)

\* ReturnPolicyAgent.process
ReturnPolicyAgent_process(state, user_input) == AgentOut(state, <<POLICY_TEXT>>, <<>>)

\* ConversationManager._load_agents: intent -> agent name
AGENTS == [check_order_status |-> "order_status_agent", ask_return_policy |-> "return_policy_agent",
           request_human |-> "human_rep_agent"]

\* What determine_intent can answer; "raise" stands for the call raising.
IntentOutcomes == {"check_order_status", "ask_return_policy", "request_human", "general_query", "unknown", "other", "raise"}
ManagerEnvs == [intent : IntentOutcomes, save : {"ok", "false", "raise"}, generate : {"ok", "raise"}]

\* Does the human-representative flow own the turn?
FlowActive(state) ==
  LET human_rep_step == Get(state.extracted_entities, KEY_HUMAN_REP_STEP, "")
  IN human_rep_step # "" /\ human_rep_step \notin {STATE_ASK_NAME, STATE_COMPLETE}

\* The result of handle_message: the state left in conversation_states, the
\* outcome, the response (when returned) and the save calls made.
Handled(state, out, resp, calls) == [state |-> state, outcome |-> out, response |-> resp, calls |-> calls]

RunAgent(state, intent, user_input, env) ==
  LET r == IF intent = "request_human" THEN HumanRepAgent_process(state, user_input, env.save)
           ELSE IF intent = "check_order_status" THEN OrderStatusAgent_process(state, user_input)
           ELSE ReturnPolicyAgent_process(state, user_input)
      done == [r.state EXCEPT !.last_agent = AGENTS[intent]]
  IN Handled(add_message(done, "model", r.response), "returned", r.response, r.calls)

\* ConversationManager.handle_message
\* handle_message from the point where determine_intent answers, on the
\* state object of the session as it is then.
AfterIntent(s1, user_input, env) ==
  IF env.intent = "raise" THEN Handled(s1, "raised", <<>>, <<>>)
  ELSE LET s2 == [s1 EXCEPT !.current_intent = env.intent]
       IN IF env.intent \in DOMAIN AGENTS THEN RunAgent(s2, env.intent, user_input, env)
          ELSE IF env.intent \in {"general_query", "unknown"}
          THEN IF env.generate = "raise" THEN Handled(s2, "raised", <<>>, <<>>)
               ELSE Handled(add_message([s2 EXCEPT !.last_agent = "llm_general_response"], "model", <<GENERATED>>),
                            "returned", <<GENERATED>>, <<>>)
          ELSE Handled(add_message([s2 EXCEPT !.last_agent = "fallback_response"], "model", <<MANAGER_FALLBACK>>),
                       "returned", <<MANAGER_FALLBACK>>, <<>>)

handle_message(states, sid, user_input, env) ==
  LET s0 == get_or_create_state(states, sid)
      s1 == add_message(s0, "user", user_input)
  IN IF FlowActive(s1)
     THEN RunAgent([s1 EXCEPT !.current_intent = "request_human"], "request_human", user_input, env)
     ELSE AfterIntent(s1, user_input, env)

\* One update of the chat window: the history of (user, bot) pairs and the
\* interactive flag of the textbox and the button.
UiUpdate(history, interactive) == [history |-> history, interactive |-> interactive]
Pair(user, bot) == [user |-> user, bot |-> bot]
\* get_initial_chat_history
InitialUi == UiUpdate(<<Pair(None, <<INITIAL_WELCOME_MESSAGE>>)>>, TRUE)

\* handle_chat_interaction after the blank-message check: the updates it
\* yields, given the sanitized message and what handle_message did (r).
UiUpdates_NoCatch(history, sanitized_message, r) ==
  LET updated_history == Append(history, Pair(sanitized_message, None))
      thinking_history == Append(updated_history, Pair(None, <<USER_PLACEHOLDER_MESSAGE>>))
  IN IF r.outcome = "raised" THEN <<UiUpdate(thinking_history, FALSE)>>
     ELSE <<UiUpdate(thinking_history, FALSE), UiUpdate(Append(updated_history, Pair(None, r.response)), TRUE)>>
UiUpdates(history, sanitized_message, r) ==
  LET updated_history == Append(history, Pair(sanitized_message, None))
      thinking_history == Append(updated_history, Pair(None, <<USER_PLACEHOLDER_MESSAGE>>))
      bot_response == IF r.outcome = "raised" THEN <<DEFAULT_ERROR_MESSAGE>> ELSE r.response
  IN <<UiUpdate(thinking_history, FALSE), UiUpdate(Append(updated_history, Pair(None, bot_response)), TRUE)>>

\* The calls handle_message makes to llm_service: determine_intent(user_input,
\* available_intents, history=state.get_history()) unless the human
\* representative flow owns the turn, then generate_response(prompt=user_input,
\* history=state.get_history()) for the intents general_query and unknown.
\* get_history returns the history list itself, read after the user message
\* of the turn was added.
\* result is the intent determine_intent returned, "ok" for a generated
\* text, "raise" for a call that raised.
LlmServiceCall(fn, text, history, result) == [fn |-> fn, text |-> text, history |-> history, result |-> result]
LlmServiceCalls_FlowUnseen(states, sid, user_input, env) ==
  LET s1 == add_message(get_or_create_state(states, sid), "user", user_input)
  IN <<LlmServiceCall("determine_intent", user_input, s1.history, env.intent)>> \o
     (IF env.intent \in {"general_query", "unknown"}
      THEN <<LlmServiceCall("generate_response", user_input, s1.history, env.generate)>>
      ELSE <<>>)
LlmServiceCalls(states, sid, user_input, env) ==
  LET s1 == add_message(get_or_create_state(states, sid), "user", user_input)
  IN IF FlowActive(s1) THEN <<>>
     ELSE <<LlmServiceCall("determine_intent", user_input, s1.history, env.intent)>> \o
          (IF env.intent \in {"general_query", "unknown"}
           THEN <<LlmServiceCall("generate_response", user_input, s1.history, env.generate)>>
           ELSE <<>>)

\* The ids handle_message passes to OrderService.get_order_status_by_id: one
\* call when the order status agent runs on an input that holds an id.
OrderServiceCalls(states, sid, user_input, env) ==
  IF /\ ~FlowActive(get_or_create_state(states, sid))
     /\ env.intent = "check_order_status"
     /\ extract_order_id(user_input) # None
  THEN <<extract_order_id(user_input)[1]>>
  ELSE <<>>

\* ================================================================ actions
ChatInputs ==
  {<<NAME>>, <<NEVERMIND>>, <<ORDER_STATUS_Q>>, <<RETURN_POLICY_Q>>,
   <<TALK_TO_AGENT>>, <<HUMAN>>, <<HELLO>>, <<ORDER_ID_1>>,
   <<WS>>, <<TALK_TO_AGENT, RETURN_POLICY_Q>>, <<RETURN_POLICY_Q, ORDER_ID_1>>, <<HELLO, ORDER_ID_1>>}
ManagerInputs == {<<WS>>, <<NAME>>, <<EMAIL>>, <<PHONE>>, <<NEVERMIND>>}
ManagerFlowEnvs == [intent : {"request_human", "general_query"}, save : {"ok", "false", "raise"}, generate : {"ok"}]
FlowChatInputs == {<<NAME>>, <<TALK_TO_AGENT>>, <<NEVERMIND>>, <<RETURN_POLICY_Q>>}
FlowManagerInputs == {<<WS>>, <<NAME>>, <<EMAIL>>, <<PHONE>>, <<NEVERMIND>>}
HandoffChatInputs == {<<NAME>>, <<TALK_TO_AGENT>>}
HandoffManagerInputs == {<<NAME>>, <<EMAIL>>, <<PHONE>>}
\* Replies of the language model after which the graph does not ask it again.
ClosingTexts == {<<LLM_THANKS>>, <<LLM_AGENT>>}
SessionIds == {"s1"}

IdleChannels == Keys(InitialChatState)

\* A new session of either application.
InitFields ==
  /\ chat_state = InitialChatState
  /\ contact_csv = <<>>
  /\ pc = "idle"
  /\ channels = IdleChannels
  /\ steps = 0
  /\ llm_replies = 0
  /\ turns = 0
  /\ last_input = <<>>
  /\ state_before = InitialChatState
  /\ handler = "none"
  /\ outcome = "none"
  /\ conversation_states = EmptyDict
  /\ contact_db = <<>>
  /\ save_calls = <<>>
  /\ response = <<>>
  /\ order_service_calls = <<>>
  /\ llm_calls = <<>>
  /\ in_flight = <<>>
  /\ ui = InitialUi
  /\ vector_queries = <<>>
  /\ generation = NoGeneration
  /\ vector_healthy = TRUE
  /\ lru_cache = <<>>

InitSession ==
  /\ app \in {"chatbot", "manager"}
  /\ InitFields

Init ==
  /\ InitSession
  /\ orders_df = Orders
  /\ vector_collection = VectorOrders

\* One call chat_with_user(u, chat_state), up to its return, its exception or
\* its chatbot.invoke.
ChatTurn(u, env) ==
  /\ app = "chatbot" /\ pc = "idle"
  /\ LET r == Direct(chat_state, u, env)
     IN /\ chat_state' = r.state
        /\ contact_csv' = contact_csv \o r.rows
        /\ handler' = r.handler
        /\ outcome' = r.outcome
        /\ pc' = IF r.outcome = "running" THEN "continue_conversation" ELSE "idle"
        /\ channels' = IF r.outcome = "running" THEN Keys(r.state) ELSE IdleChannels
  /\ steps' = 0
  /\ llm_replies' = 0
  /\ turns' = turns + 1
  /\ last_input' = u
  /\ state_before' = chat_state
  /\ vector_queries' = <<>>
  /\ generation' = NoGeneration
  /\ UNCHANGED <<app, managervars, datavars>>

\* process_message of app.py, after chat_with_user returned: the messages are
\* filtered through a set of the (role, content) pairs seen so far, so that an
\* entry equal to ANY earlier entry is dropped; the eight keys are copied.
RECURSIVE Deduplicate(_, _)
Deduplicate(msgs, seen) ==
  IF msgs = <<>> THEN <<>>
  ELSE IF Head(msgs) \in seen THEN Deduplicate(Tail(msgs), seen)
  ELSE <<Head(msgs)>> \o Deduplicate(Tail(msgs), seen \cup {Head(msgs)})

\* What the caller of chat_with_user keeps of the state it returns: app.py
\* de-duplicates the messages, a direct caller keeps them as they are.
Returned(s) == IF app = "app" THEN [s EXCEPT !.messages = Deduplicate(@, {})] ELSE s

\* After a node: the router picks the next node, or END and invoke returns
\* the state of the graph.
Advance(out) ==
  LET nxt == router(out.ch, out.msgs)
  IN IF nxt = "END"
     THEN /\ chat_state' = Returned(WithMessages(out.ch, out.msgs))
          /\ pc' = "idle" /\ channels' = IdleChannels /\ steps' = 0
          /\ outcome' = "returned"
     ELSE /\ chat_state' = [chat_state EXCEPT !.messages = out.msgs]
          /\ pc' = nxt /\ channels' = out.ch /\ steps' = steps + 1
          /\ outcome' = outcome

\* The except branch around chatbot.invoke: the keys of chat_state are as
\* they were passed in, the messages list holds what the nodes appended.
GraphFailed ==
  /\ chat_state' = Returned([chat_state EXCEPT !.messages = Say(@, <<GRAPH_FALLBACK_MSG>>)])
  /\ pc' = "idle" /\ channels' = IdleChannels /\ steps' = 0
  /\ outcome' = "returned"
  /\ handler' = "graph_error"

NodeEnabled(node) ==
  /\ app \in {"chatbot", "app"} /\ pc = node
  /\ steps < RECURSION_LIMIT

RunContinue(texts, outcomes, max_replies) ==
  /\ NodeEnabled("continue_conversation")
  /\ IF NeedsHuman(Lower(Last(chat_state.messages)))
     THEN /\ Advance(continue_conversation(channels, chat_state.messages, <<>>))
          /\ llm_replies' = llm_replies
          /\ generation' = NoGeneration
     ELSE /\ llm_replies < max_replies
          /\ \E text \in texts, outs \in outcomes :
               LET g == Generate(outs, text, <<LLM_TROUBLE_MSG>>)
               IN /\ Advance(continue_conversation(channels, chat_state.messages, g.text))
                  /\ generation' = GenerationBy("continue_conversation", g)
          /\ llm_replies' = llm_replies + 1
  /\ UNCHANGED <<app, turns, contact_csv, last_input, state_before, handler, managervars, datavars, vector_queries>>

RunLookup ==
  /\ NodeEnabled("lookup_order")
  /\ Advance(lookup_order(channels, chat_state.messages))
  /\ vector_queries' = vector_queries \o
       (IF HasHex(Last(chat_state.messages)) THEN VectorQueries(HexGroup(Last(chat_state.messages))) ELSE <<>>)
  /\ lru_cache' = IF HasHex(Last(chat_state.messages)) THEN CacheAfter(HexGroup(Last(chat_state.messages))) ELSE lru_cache
  /\ generation' = NoGeneration
  /\ UNCHANGED <<app, turns, contact_csv, llm_replies, last_input, state_before, handler, managervars,
                 orders_df, vector_collection, vector_healthy>>

RunCollect ==
  /\ NodeEnabled("collect_contact_info")
  /\ LET out == collect_contact_info(channels, chat_state.messages)
     IN IF CollectWrites(channels, chat_state.messages)
        THEN \E csv_ok \in BOOLEAN :
               IF csv_ok
               THEN /\ contact_csv' = Append(contact_csv, ContactRow(out.ch))
                    /\ Advance(out) /\ handler' = handler
               ELSE /\ contact_csv' = contact_csv
                    /\ GraphFailed
        ELSE /\ contact_csv' = contact_csv
             /\ Advance(out) /\ handler' = handler
  /\ generation' = NoGeneration
  /\ UNCHANGED <<app, turns, llm_replies, last_input, state_before, managervars, datavars, vector_queries>>

\* chatbot.invoke gives up after RECURSION_LIMIT nodes without reaching END:
\* GraphRecursionError lands in the except branch of chat_with_user.
RunLimit ==
  /\ app \in {"chatbot", "app"} /\ pc # "idle"
  /\ steps >= RECURSION_LIMIT
  /\ GraphFailed
  /\ generation' = NoGeneration
  /\ UNCHANGED <<app, turns, contact_csv, llm_replies, last_input, state_before, managervars, datavars, vector_queries>>

\* bleach.clean(message): markup characters of the message are escaped.
bleach_clean(text) == HtmlEscape(text)

\* process_message: the history of the chat component becomes the messages,
\* and the message is appended unless the history ends with a user entry.
WithUserMessage(history, message) ==
  IF history = <<>> \/ history[Len(history)].role # "user"
  THEN Append(history, Msg("user", message))
  ELSE history

HasAssistant(msgs) == \E i \in DOMAIN msgs : msgs[i].role = "assistant"
CredentialChecks == {"ok", "first_fails", "second_fails"}

\* One call process_message(message, history, state) of app.py from the send
\* button (no order_id), history being the messages it yielded last: to both
\* of its yields when chat_with_user answers without the graph, else up to
\* chatbot.invoke inside chat_with_user (the end of the graph then returns
\* through Returned).  creds says which of its two credential checks fails.
ProcessMessage(raw_message, env, creds) ==
  /\ app = "app" /\ pc = "idle"
  /\ LET message == bleach_clean(raw_message)
         state == [chat_state EXCEPT !.messages = WithUserMessage(@, message)]
         r == Direct(state, message, env)
     IN /\ last_input' = message
        /\ IF creds = "first_fails"
           THEN /\ chat_state' = Reply(chat_state, <<SERVICES_TROUBLE_MSG>>)
                /\ handler' = "credentials" /\ outcome' = "returned"
                /\ pc' = "idle" /\ channels' = IdleChannels
                /\ contact_csv' = contact_csv
           ELSE IF creds = "second_fails"
           THEN /\ chat_state' = Reply(state, <<SERVICES_TROUBLE_MSG>>)
                /\ handler' = "credentials" /\ outcome' = "returned"
                /\ pc' = "idle" /\ channels' = IdleChannels
                /\ contact_csv' = contact_csv
           ELSE /\ chat_state' =
                     IF r.outcome = "returned" THEN Returned(r.state)
                     ELSE IF r.outcome = "raised" /\ ~HasAssistant(r.state.messages)
                     THEN Reply(r.state, <<PROCESSING_ERROR_MSG>>)
                     ELSE r.state
                /\ handler' = r.handler /\ outcome' = r.outcome
                /\ pc' = IF r.outcome = "running" THEN "continue_conversation" ELSE "idle"
                /\ channels' = IF r.outcome = "running" THEN Keys(r.state) ELSE IdleChannels
                /\ contact_csv' = contact_csv \o r.rows
  /\ steps' = 0
  /\ llm_replies' = 0
  /\ turns' = turns + 1
  /\ state_before' = chat_state
  /\ vector_queries' = <<>>
  /\ generation' = NoGeneration
  /\ UNCHANGED <<app, managervars, datavars>>

\* handle_message as a coroutine on the event loop.  It takes no lock: it
\* runs from its call to its first suspended await, and other coroutines of
\* the same session run while it is suspended.  Task is a suspended call.
Task(sid, user_input, env, awaiting) == [sid |-> sid, user_input |-> user_input, env |-> env, awaiting |-> awaiting]
Without(seq, i) == SubSeq(seq, 1, i - 1) \o SubSeq(seq, i + 1, Len(seq))
Finish(sid, r) ==
  /\ conversation_states' = Update(conversation_states, [k \in {sid} |-> r.state])
  /\ save_calls' = save_calls \o r.calls
  /\ contact_db' = contact_db \o SelectSeq(r.calls, LAMBDA c : c.result = "ok")
  /\ response' = r.response
  /\ outcome' = r.outcome

\* A call of handle_message up to its first await: the user message is
\* added and the flow step is read; a turn of the human representative flow
\* has no suspending await and runs to its end, any other turn is suspended
\* in await determine_intent.
HandleReceive(sid, u, env) ==
  /\ app = "manager"
  /\ LET s1 == add_message(get_or_create_state(conversation_states, sid), "user", u)
     IN IF FlowActive(s1)
        THEN /\ Finish(sid, handle_message(conversation_states, sid, u, env))
             /\ in_flight' = in_flight
             /\ llm_calls' = <<>>
        ELSE /\ conversation_states' = Update(conversation_states, [k \in {sid} |-> s1])
             /\ in_flight' = Append(in_flight, Task(sid, u, env, "determine_intent"))
             /\ llm_calls' = <<LlmServiceCall("determine_intent", u, s1.history, env.intent)>>
             /\ outcome' = "running"
             /\ UNCHANGED <<save_calls, contact_db, response>>
  /\ order_service_calls' = <<>>
  /\ turns' = turns + 1
  /\ last_input' = u
  /\ UNCHANGED <<app, chat_state, contact_csv, pc, channels, steps, llm_replies, state_before, handler, datavars,
                 vector_queries, generation, ui>>

\* A suspended call goes on: after determine_intent to the end of the turn,
\* or to await get_order_status_by_id (asyncio.to_thread) when the order
\* status agent found an id; after the order service to the end of the turn.
HandleResume(i) ==
  /\ app = "manager"
  /\ i \in DOMAIN in_flight
  /\ LET task == in_flight[i]
         cur == conversation_states[task.sid]
     IN IF task.awaiting = "determine_intent"
        THEN IF task.env.intent = "check_order_status" /\ extract_order_id(task.user_input) # None
             THEN /\ conversation_states' =
                       Update(conversation_states, [k \in {task.sid} |-> [cur EXCEPT !.current_intent = task.env.intent]])
                  /\ in_flight' = [in_flight EXCEPT ![i].awaiting = "get_order_status_by_id"]
                  /\ order_service_calls' = <<extract_order_id(task.user_input)[1]>>
                  /\ llm_calls' = <<>>
                  /\ UNCHANGED <<save_calls, contact_db, response, outcome>>
             ELSE /\ Finish(task.sid, AfterIntent(cur, task.user_input, task.env))
                  /\ in_flight' = Without(in_flight, i)
                  /\ order_service_calls' = <<>>
                  /\ llm_calls' = IF task.env.intent \in {"general_query", "unknown"}
                                  THEN <<LlmServiceCall("generate_response", task.user_input, cur.history, task.env.generate)>>
                                  ELSE <<>>
        ELSE /\ Finish(task.sid, RunAgent(cur, "check_order_status", task.user_input, task.env))
             /\ in_flight' = Without(in_flight, i)
             /\ order_service_calls' = <<>>
             /\ llm_calls' = <<>>
  /\ UNCHANGED <<app, turns, last_input, chat_state, contact_csv, pc, channels, steps, llm_replies, state_before,
                 handler, datavars, vector_queries, generation, ui>>

\* clear_conversation of app.py: the caller's state is replaced by reset_state().
ClearConversation ==
  /\ app = "chatbot" /\ pc = "idle"
  /\ chat_state # InitialChatState
  /\ chat_state' = InitialChatState
  /\ UNCHANGED <<app, turns, contact_csv, pc, channels, steps, llm_replies, last_input, state_before, handler,
                 outcome, managervars, datavars, vector_queries, generation>>

\* The vector store stops answering, or answers again.
VectorStoreFlips ==
  /\ app = "chatbot" /\ pc = "idle"
  /\ vector_healthy' = ~vector_healthy
  /\ UNCHANGED <<app, turns, chatvars, managervars, orders_df, vector_collection, lru_cache, vector_queries, generation>>

\* health_check of app.py: one LLMService.generate_response on a test
\* message; the text is dropped.
HealthCheck(text, outs) ==
  /\ app = "chatbot" /\ pc = "idle"
  /\ generation' = GenerationBy("generate_response", LLMService_generate_response(outs, text))
  /\ UNCHANGED <<app, turns, chatvars, managervars, datavars, vector_queries>>

\* One call handle_message(u, sid) of the manager.
ManagerTurn_SharedHistory(sid, u, env) ==
  /\ app = "manager"
  /\ LET r == handle_message(conversation_states, sid, u, env)
         updated == Update(conversation_states, [k \in {sid} |-> r.state])
     IN /\ conversation_states' = [k \in DOMAIN updated |-> [updated[k] EXCEPT !.history = r.state.history]]
        /\ save_calls' = save_calls \o r.calls
        /\ contact_db' = contact_db \o SelectSeq(r.calls, LAMBDA c : c.result = "ok")
        /\ response' = r.response
        /\ outcome' = r.outcome
  /\ order_service_calls' = OrderServiceCalls(conversation_states, sid, u, env)
  /\ llm_calls' = LlmServiceCalls(conversation_states, sid, u, env)
  /\ in_flight' = in_flight
  /\ turns' = turns + 1
  /\ last_input' = u
  /\ UNCHANGED <<app, chat_state, contact_csv, pc, channels, steps, llm_replies, state_before, handler, datavars, vector_queries, generation, ui>>
ManagerTurn(sid, u, env) ==
  /\ app = "manager"
  /\ LET r == handle_message(conversation_states, sid, u, env)
     IN /\ conversation_states' = Update(conversation_states, [k \in {sid} |-> r.state])
        /\ save_calls' = save_calls \o r.calls
        /\ contact_db' = contact_db \o SelectSeq(r.calls, LAMBDA c : c.result = "ok")
        /\ response' = r.response
        /\ outcome' = r.outcome
  /\ order_service_calls' = OrderServiceCalls(conversation_states, sid, u, env)
  /\ llm_calls' = LlmServiceCalls(conversation_states, sid, u, env)
  /\ in_flight' = in_flight
  /\ turns' = turns + 1
  /\ last_input' = u
  /\ UNCHANGED <<app, chat_state, contact_csv, pc, channels, steps, llm_replies, state_before, handler, datavars, vector_queries, generation, ui>>

\* One handle_chat_interaction(message, history, sid) of gradio_app, to the
\* end of the generator: a blank message yields nothing; else the message is
\* stripped and escaped, handle_message runs, and the window shows the last
\* update yielded.
ChatInteraction(sid, message, env) ==
  /\ app = "manager"
  /\ IF Strip(message) = <<>>
     THEN UNCHANGED <<managervars, outcome, turns, last_input>>
     ELSE LET sanitized_message == HtmlEscape(Strip(message))
              r == handle_message(conversation_states, sid, sanitized_message, env)
              updates == UiUpdates(ui.history, sanitized_message, r)
          IN /\ conversation_states' = Update(conversation_states, [k \in {sid} |-> r.state])
             /\ save_calls' = save_calls \o r.calls
             /\ contact_db' = contact_db \o SelectSeq(r.calls, LAMBDA c : c.result = "ok")
             /\ response' = r.response
             /\ outcome' = r.outcome
             /\ order_service_calls' = OrderServiceCalls(conversation_states, sid, sanitized_message, env)
             /\ llm_calls' = LlmServiceCalls(conversation_states, sid, sanitized_message, env)
             /\ in_flight' = in_flight
             /\ ui' = updates[Len(updates)]
             /\ turns' = turns + 1
             /\ last_input' = sanitized_message
  /\ UNCHANGED <<app, chat_state, contact_csv, pc, channels, steps, llm_replies, state_before, handler, datavars, vector_queries, generation>>

Next ==
  \/ \E u \in ChatInputs, env \in Envs : turns < MaxTurns /\ ChatTurn(u, env)
  \/ RunContinue(LlmReplies, LlmOutcomes, MaxLlmReplies)
  \/ RunLookup
  \/ RunCollect
  \/ RunLimit
  \/ \E sid \in SessionIds, u \in ManagerInputs, env \in ManagerFlowEnvs : turns < MaxTurns /\ ManagerTurn(sid, u, env)

Spec == Init /\ [][Next]_vars

\* The sessions of the contact flow of chat_with_user: the inputs are those
\* the steps of the flow tell apart.
InitChatbot == Init /\ app = "chatbot"
NextFlow ==
  \/ \E u \in FlowChatInputs, env \in Envs : turns < MaxFlowTurns /\ ChatTurn(u, env)
  \/ RunContinue(ClosingTexts, LlmHealthy, MaxLlmReplies)
  \/ RunCollect
  \/ RunLimit

SpecFlow == InitChatbot /\ [][NextFlow]_vars

\* The sessions of the human-representative flow of the manager.
InitManager == Init /\ app = "manager"
NextManagerFlow ==
  \E sid \in SessionIds, u \in FlowManagerInputs, env \in ManagerFlowEnvs :
    turns < MaxFlowTurns /\ ManagerTurn(sid, u, env)

SpecManagerFlow == InitManager /\ [][NextManagerFlow]_vars

\* The sessions in which a handoff completes and the user goes on writing.
NextHandoff ==
  \/ \E u \in HandoffChatInputs, env \in Envs : turns < MaxHandoffTurns /\ ChatTurn(u, env)
  \/ RunContinue(ClosingTexts, LlmHealthy, MaxLlmReplies)
  \/ RunCollect
  \/ RunLimit
  \/ \E sid \in SessionIds, u \in HandoffManagerInputs, env \in ManagerFlowEnvs : turns < MaxHandoffTurns /\ ManagerTurn(sid, u, env)

SpecHandoff == Init /\ [][NextHandoff]_vars

\* The sessions of the manager over every answer of its collaborators: the
\* inputs name an order of the table, an id that is no order, and no id.
AgentInputs == {<<ORDER_ID_1>>, <<HELLO, CUSTOMER_ID_1>>, <<ORDER_STATUS_Q>>}
NextAgents ==
  \E sid \in SessionIds, u \in AgentInputs, env \in ManagerEnvs :
    turns < MaxTurns /\ ManagerTurn(sid, u, env)

SpecAgents == InitManager /\ [][NextAgents]_vars

\* The sessions in which the language model is asked for free text and may
\* raise: messages no direct handler answers, and health checks in between.
GenerateInputs == {<<JOKE>>, <<NAME>>, <<EMAIL>>, <<PHONE>>}
GenerateReplies == {<<LLM_PLAIN>>, <<LLM_THANKS>>}
NextGenerate ==
  \/ \E u \in GenerateInputs, env \in Envs : turns < MaxTurns /\ ChatTurn(u, env)
  \/ RunContinue(GenerateReplies, LlmOutcomes, MaxLlmReplies)
  \/ \E text \in GenerateReplies, outs \in LlmOutcomes : HealthCheck(text, outs)

SpecGenerate == InitChatbot /\ [][NextGenerate]_vars

\* The sessions of the chat window of gradio_app over every answer of the
\* manager's collaborators.
UiInputs == {<<WS>>, <<WS, NAME>>, <<TOM_AND_ANN>>, <<ORDER_ID_1>>}
NextUi ==
  \E sid \in SessionIds, u \in UiInputs, env \in ManagerEnvs :
    turns < MaxTurns /\ ChatInteraction(sid, u, env)

SpecUi == InitManager /\ [][NextUi]_vars

\* The sessions in which the order status agent extracts the identifier from
\* texts of up to two phrases: a short run, ids and a run longer than an id.
ExtractPhrases == {PHONE, ORDER_ID_2, MIXED_ID, LONG_RUN}
ExtractInputs == {<<p>> : p \in ExtractPhrases} \cup {<<p, q>> : p \in ExtractPhrases, q \in ExtractPhrases}
ExtractEnvs == {env \in ManagerEnvs : env.intent = "check_order_status" /\ env.save = "ok" /\ env.generate = "ok"}
NextExtract ==
  \E sid \in SessionIds, u \in ExtractInputs, env \in ExtractEnvs :
    turns < MaxTurns /\ ManagerTurn(sid, u, env)

SpecExtract == InitManager /\ [][NextExtract]_vars

\* The first call of a session over every small orders dataset and vector
\* collection.  The status of a row tells where an answer came from: rows of
\* the dataset are delivered, rows of the vector collection shipped.
\* ORDER_ID_1 can also be the customer_id of a row.
SeqsUpTo(S, n) == UNION {[1..k -> S] : k \in 0..n}
DatasetRows ==
  [order_id : {ORDER_ID_1, ORDER_ID_2}, customer_id : {ORDER_ID_1, CUSTOMER_ID_1},
   order_status : {"delivered"}, order_purchase_timestamp : 1..2]
VectorRows ==
  [order_id : {ORDER_ID_2}, customer_id : {ORDER_ID_1, CUSTOMER_ID_1},
   order_status : {"shipped"}, order_purchase_timestamp : {1}]
LookupInputs == {<<ORDER_ID_1>>, <<ORDER_ID_2>>, <<CUSTOMER_ID_1>>, <<NAME>>}
\* Replies of the language model that name an identifier.
LookupReplies == {<<LLM_ORDER>>, <<LLM_PLAIN, ORDER_ID_2>>, <<LLM_PLAIN, CUSTOMER_ID_1>>}
\* The order data loads and the contact file can be written.
LookupEnvs == {env \in Envs : env.csv_ok /\ env.data_ok /\ env.data_ok2}

InitLookup ==
  /\ InitSession /\ app = "chatbot"
  /\ orders_df \in SeqsUpTo(DatasetRows, MaxOrders)
  /\ vector_collection \in SeqsUpTo(VectorRows, MaxVectorOrders)
NextLookup ==
  \/ \E u \in LookupInputs, env \in LookupEnvs : turns = 0 /\ ChatTurn(u, env)
  \/ RunContinue(LookupReplies, LlmHealthy, MaxLlmReplies)
  \/ RunLookup

SpecLookup == InitLookup /\ [][NextLookup]_vars

\* The sessions in which identifiers of every shape reach the routing of
\* chat_with_user and of the graph, with the order data loading.
DetectInputs == {<<MIXED_ID>>, <<ORDER_ID_1>>, <<ORDER_ID_2>>, <<LONG_RUN>>, <<JOKE>>, <<NAME>>}
DetectReplies == {<<LLM_PLAIN, MIXED_ID>>, <<LLM_PLAIN, ORDER_ID_2>>, <<LLM_THANKS>>}
NextDetect ==
  \/ \E u \in DetectInputs, env \in LookupEnvs : turns < MaxTurns /\ ChatTurn(u, env)
  \/ RunContinue(DetectReplies, LlmHealthy, MaxLlmReplies)
  \/ RunLookup

SpecDetect == InitChatbot /\ [][NextDetect]_vars

\* Sessions that follow one another in one process while the vector store
\* fails and recovers: the orders dataset is empty, so every identifier the
\* model's reply names goes to the cached vector lookups.
CacheInputs == {<<JOKE>>}
CacheReplies == {<<LLM_PLAIN, ORDER_ID_2>>, <<LLM_PLAIN, CUSTOMER_ID_1>>, <<LLM_THANKS>>}
InitCache ==
  /\ InitSession /\ app = "chatbot"
  /\ orders_df = <<>>
  /\ vector_collection \in SeqsUpTo(VectorRows, MaxVectorOrders)
NextCache ==
  \/ \E u \in CacheInputs, env \in LookupEnvs : turns < MaxTurns /\ ChatTurn(u, env)
  \/ RunContinue(CacheReplies, LlmHealthy, MaxCacheReplies)
  \/ RunLookup
  \/ ClearConversation
  \/ VectorStoreFlips

SpecCache == InitCache /\ [][NextCache]_vars

\* Long sessions of the conversation manager: general questions, answered
\* by the language model, until the history passes MAX_CONVERSATION_HISTORY.
HistoryInputs == {<<JOKE>>, <<NAME>>}
HistoryEnvs == {env \in ManagerEnvs : env.intent = "general_query" /\ env.save = "ok" /\ env.generate = "ok"}
NextHistory ==
  \E sid \in SessionIds, u \in HistoryInputs, env \in HistoryEnvs :
    turns < MaxHistoryTurns /\ ManagerTurn(sid, u, env)

SpecHistory == InitManager /\ [][NextHistory]_vars

\* Long conversations of one session in which the language model may fail at
\* either of its two calls.
TrimEnvs == {env \in ManagerEnvs : env.intent \in {"general_query", "raise"} /\ env.save = "ok"}
NextTrim ==
  \E u \in HistoryInputs, env \in TrimEnvs :
    turns < MaxHistoryTurns /\ ManagerTurn("s1", u, env)

SpecTrim == InitManager /\ [][NextTrim]_vars

\* Sessions of chat_with_user that ask a policy question before, during and
\* after an order lookup and a handoff to a human.
FaqInputs == {<<RETURN_POLICY_Q>>, <<TALK_TO_AGENT>>, <<NAME>>, <<ORDER_ID_1>>}
NextFaq ==
  \/ \E u \in FaqInputs, env \in LookupEnvs : turns < MaxFaqTurns /\ ChatTurn(u, env)
  \/ RunContinue(ClosingTexts, LlmHealthy, MaxLlmReplies)
  \/ RunCollect
  \/ RunLimit

SpecFaq == InitChatbot /\ [][NextFaq]_vars

\* Sessions of the conversation manager under every answer of
\* determine_intent and of generate_response, the contact store accepting
\* every request.
DispatchInputs == {<<NAME>>, <<EMAIL>>, <<ORDER_ID_1>>}
DispatchEnvs == {env \in ManagerEnvs : env.save = "ok"}
NextDispatch ==
  \E sid \in SessionIds, u \in DispatchInputs, env \in DispatchEnvs :
    turns < MaxDispatchTurns /\ ManagerTurn(sid, u, env)

SpecDispatch == InitManager /\ [][NextDispatch]_vars

\* Calls of handle_message for one session that arrive whenever the event
\* loop is free, also while earlier calls are suspended.
ConcurrentInputs == {<<NAME>>, <<ORDER_ID_1>>}
ConcurrentEnvs ==
  {env \in ManagerEnvs : /\ env.intent \in {"check_order_status", "request_human", "general_query"}
                         /\ env.save = "ok" /\ env.generate = "ok"}
NextConcurrent ==
  \/ \E sid \in SessionIds, u \in ConcurrentInputs, env \in ConcurrentEnvs :
       turns < MaxConcurrentTurns /\ HandleReceive(sid, u, env)
  \/ \E i \in 1..MaxConcurrentTurns : HandleResume(i)

SpecConcurrent == InitManager /\ [][NextConcurrent]_vars

\* Two sessions of one ConversationManager, their calls in any order.
TwoSessions == {"s1", "s2"}
SessionInputs == {<<NAME>>, <<EMAIL>>}
SessionEnvs ==
  {env \in ManagerEnvs : env.intent \in {"request_human", "general_query"} /\ env.save = "ok" /\ env.generate = "ok"}
NextSessions ==
  \E sid \in TwoSessions, u \in SessionInputs, env \in SessionEnvs :
    turns < MaxSessionTurns /\ ManagerTurn(sid, u, env)

SpecSessions == InitManager /\ [][NextSessions]_vars

\* Sessions of chat_with_user that go through the handoff to a human and
\* then go on, also with a cancellation word.
AfterHandoffInputs == {<<TALK_TO_AGENT>>, <<NAME>>, <<NEVERMIND>>}
AfterHandoffEnvs == {env \in Envs : env.data_ok /\ env.data_ok2}
NextAfterHandoff ==
  \/ \E u \in AfterHandoffInputs, env \in AfterHandoffEnvs : turns < MaxAfterTurns /\ ChatTurn(u, env)
  \/ RunContinue(ClosingTexts, LlmHealthy, MaxLlmReplies)
  \/ RunCollect
  \/ RunLimit

SpecAfterHandoff == InitChatbot /\ [][NextAfterHandoff]_vars

\* Sessions in which the language model is asked as often as the graph
\* comes back to continue_conversation.
LoopInputs == {<<JOKE>>, <<NAME>>}
LoopReplies == {<<LLM_PLAIN>>, <<LLM_THANKS>>}
NextLoop ==
  \/ \E u \in LoopInputs, env \in LookupEnvs : turns < MaxLoopTurns /\ ChatTurn(u, env)
  \/ RunContinue(LoopReplies, LlmHealthy, RECURSION_LIMIT)
  \/ RunLimit

SpecLoop == InitChatbot /\ [][NextLoop]_vars

\* Sessions of app.py: messages sent from the chat box, each through
\* process_message, with the data collaborators answering.
AppInputs == {<<HELLO>>, <<JOKE>>, <<ORDER_ID_1>>, <<TOM_AND_ANN>>}
AppReplies == {<<LLM_PLAIN>>}
InitApp ==
  /\ app = "app"
  /\ InitFields
  /\ orders_df = Orders
  /\ vector_collection = VectorOrders
NextApp ==
  \/ \E u \in AppInputs, env \in LookupEnvs, creds \in CredentialChecks :
       turns < MaxAppTurns /\ ProcessMessage(u, env, creds)
  \/ RunContinue(AppReplies, LlmHealthy, MaxLlmReplies)

SpecApp == InitApp /\ [][NextApp]_vars

\* ================================================================ claims
\* The contact flow of chat_with_user is waiting for a name, an email or a phone.
ContactFlowActive(s) == s.needs_human_agent /\ ~s.contact_info_collected /\ s.contact_step \in 1..3
\* A call of chat_with_user has ended, by return or by exception.
ChatCallEnded == app = "chatbot" /\ pc = "idle" /\ turns > 0
UserContents(msgs) == {msgs[i].content : i \in {j \in DOMAIN msgs : msgs[j].role = "user"}}

\* C1: in chat_with_user, when a contact flow is active at the start of the
\* turn and the message holds no cancellation and no order-lookup keyword, the
\* contact step handles the turn: the input is stored as name, email or phone
\* and contact_step goes up by one, whatever else the text contains.
C1_ActiveFlowTakesTheTurn ==
  (/\ ChatCallEnded
   /\ ContactFlowActive(state_before)
   /\ ~AnyIn(CANCEL_KEYWORDS, Lower(last_input))
   /\ ~AnyIn(CUSTOMER_ID_KEYWORDS, Lower(last_input)))
  => /\ handler = "contact_step"
     /\ chat_state.contact_step = state_before.contact_step + 1
     /\ state_before.contact_step = 1 => chat_state.customer_name = last_input
     /\ state_before.contact_step = 2 => chat_state.customer_email = last_input
     /\ state_before.contact_step = 3 => chat_state.customer_phone = last_input

\* C2: in every reachable state customer_name, customer_email and
\* customer_phone, when set, each equal the content of a user message of the
\* conversation, never that of an assistant message.
C2_ContactFieldsComeFromUser ==
  app = "chatbot" =>
    \A v \in {chat_state.customer_name, chat_state.customer_email, chat_state.customer_phone,
              channels.customer_name, channels.customer_email, channels.customer_phone} :
      v # None => v \in UserContents(chat_state.messages)

\* C3: whichever handler answers a call chat_with_user(user_input, state), the
\* returned messages are the messages before the call, then the user message,
\* then exactly one assistant message.
C3_OneAssistantMessagePerCall ==
  (ChatCallEnded /\ outcome = "returned") =>
    \E text \in {chat_state.messages[i].content : i \in DOMAIN chat_state.messages} :
      chat_state.messages = state_before.messages \o <<Msg("user", last_input), Msg("assistant", text)>>

\* --------------------------------------------------- claims on the manager
\* One call of handle_message is the step from the unprimed to the primed state.
ManagerCall == app = "manager" /\ turns' = turns + 1
Entities(states, sid) == IF sid \in DOMAIN states THEN states[sid].extracted_entities ELSE EmptyDict
HumanRepStep(states, sid) == Get(Entities(states, sid), KEY_HUMAN_REP_STEP, "")
\* The save_contact_request calls of the step.
NewCalls == SubSeq(save_calls', Len(save_calls) + 1, Len(save_calls'))
\* sub occurs in text
HasPhrases(text, sub) == \E i \in 0..(Len(text) - Len(sub)) : SubSeq(text, i + 1, i + Len(sub)) = sub

ChatCall == app = "chatbot" /\ pc = "idle" /\ turns' = turns + 1
C5_CancelKeywords == {"cancel", "nevermind", "never mind", "stop", "go back"}

\* C5: in chat_with_user, with an active contact flow (contact_step 1, 2 or
\* 3, nothing collected yet) a message holding a cancellation keyword or an
\* order-lookup keyword leaves needs_human_agent false and contact_step 0,
\* clears customer_name, customer_email and customer_phone to None, does not
\* invoke the graph and persists nothing.
C5_CancelClearsContactFields ==
  [][(/\ ChatCall
      /\ ContactFlowActive(chat_state)
      /\ \/ AnyIn(C5_CancelKeywords, Lower(last_input'))
         \/ AnyIn(CUSTOMER_ID_KEYWORDS, Lower(last_input')))
     => /\ ~chat_state'.needs_human_agent
        /\ chat_state'.contact_step = 0
        /\ chat_state'.customer_name = None
        /\ chat_state'.customer_email = None
        /\ chat_state'.customer_phone = None
        /\ pc' = "idle"
        /\ contact_csv' = contact_csv
    ]_vars

\* C7: in every reachable state of chat_with_user contact_info_collected
\* implies that exactly one contact record was written for that handoff, and
\* after a failed write the state does not show a completed handoff
\* (contact_info_collected false, contact_step not 4).
C7_CollectedMeansOneRecord ==
  app = "chatbot" =>
    /\ chat_state.contact_info_collected =>
         Cardinality({i \in DOMAIN contact_csv : contact_csv[i] = ContactRow(chat_state)}) = 1
    /\ (pc = "idle" /\ outcome = "raised") =>
         ~chat_state.contact_info_collected /\ chat_state.contact_step # 4

\* ------------------------------------------- more claims on the manager
C6_CancelKeywords == {"cancel", "nevermind", "stop", "go back"}

\* C6: in handle_message, while human_rep_step is ask_email, ask_phone or
\* confirm, a message holding a cancellation keyword aborts the flow: the step
\* and the stored name and email are cleared, the text is not stored as name,
\* email or phone, and save_contact_request is not called.
C6_ManagerCancelAborts ==
  [][ManagerCall => \A sid \in SessionIds :
       (/\ HumanRepStep(conversation_states, sid) \in {STATE_ASK_EMAIL, STATE_ASK_PHONE, STATE_CONFIRM}
        /\ AnyIn(C6_CancelKeywords, Lower(last_input')))
       => /\ HumanRepStep(conversation_states', sid) \in {"", STATE_ASK_NAME}
          /\ KEY_HUMAN_REP_NAME \notin DOMAIN Entities(conversation_states', sid)
          /\ KEY_HUMAN_REP_EMAIL \notin DOMAIN Entities(conversation_states', sid)
          /\ KEY_HUMAN_REP_PHONE \notin DOMAIN Entities(conversation_states', sid)
          /\ NewCalls = <<>>
     ]_vars

\* The input of the step is neither 'skip' nor holds a digit.
NoPhoneInput(u) == Lower(Strip(u)) # <<SKIP>> /\ ~ContainsDigit(Lower(Strip(u)))

\* C8 as stated: at human_rep_step = confirm an input that is not 'skip' and
\* holds no digit only re-prompts: the step stays confirm and
\* save_contact_request is not called.
C8_NoDigitReprompts ==
  [][ManagerCall => \A sid \in SessionIds :
       (HumanRepStep(conversation_states, sid) = STATE_CONFIRM /\ NoPhoneInput(last_input'))
       => /\ HumanRepStep(conversation_states', sid) = STATE_CONFIRM
          /\ NewCalls = <<>>
     ]_vars

\* C8 amended: at human_rep_step = confirm an input that is not 'skip' and
\* holds no digit is treated as a skipped phone: save_contact_request is called
\* once with the stored name and email and phone_number None; when it returns
\* True the step is complete and the confirmation names no phone, when it
\* returns False the step stays confirm.
C8_NoDigitIsSkipped ==
  [][ManagerCall => \A sid \in SessionIds :
       (HumanRepStep(conversation_states, sid) = STATE_CONFIRM /\ NoPhoneInput(last_input'))
       => /\ Len(NewCalls) = 1
          /\ NewCalls[1].full_name = Get(Entities(conversation_states, sid), KEY_HUMAN_REP_NAME, None)
          /\ NewCalls[1].email = Get(Entities(conversation_states, sid), KEY_HUMAN_REP_EMAIL, None)
          /\ NewCalls[1].phone_number = None
          /\ NewCalls[1].result = "ok" =>
               /\ HumanRepStep(conversation_states', sid) = STATE_COMPLETE
               /\ response'[1] = HR_DONE_PRE
               /\ ~HasPhrases(response', <<HR_DONE_PHONE>>)
          /\ NewCalls[1].result = "false" =>
               HumanRepStep(conversation_states', sid) = STATE_CONFIRM
     ]_vars

\* A name typed where the phone was asked for completed the request.
C8_Witness ==
  /\ app = "manager" /\ last_input = <<NAME>>
  /\ \E sid \in SessionIds : HumanRepStep(conversation_states, sid) = STATE_COMPLETE
  /\ save_calls = <<SaveCall(<<NAME>>, <<EMAIL>>, None, "ok")>>
  /\ response[1] = HR_DONE_PRE

\* C9 as stated: when save_contact_request fails at the final step the user
\* still gets the thank-you confirmation and the step reaches complete.
C9_FailedSaveStillThanks ==
  [][ManagerCall => \A sid \in SessionIds :
       (/\ HumanRepStep(conversation_states, sid) = STATE_CONFIRM
        /\ Len(NewCalls) = 1 /\ NewCalls[1].result # "ok")
       => /\ response'[1] = HR_DONE_PRE
          /\ HumanRepStep(conversation_states', sid) = STATE_COMPLETE
     ]_vars

\* C9 amended: when save_contact_request returns False at the final step the
\* user gets the "issue saving your request" apology and the flow stays at
\* confirm with name and email kept, so the next input retries the save; when
\* the call raises, the user gets the "unexpected error" apology and step, name
\* and email are removed.
C9_FailedSaveAllowsRetry ==
  [][ManagerCall => \A sid \in SessionIds :
       (HumanRepStep(conversation_states, sid) = STATE_CONFIRM /\ Len(NewCalls) = 1)
       => /\ NewCalls[1].result = "false" =>
               /\ response' = <<HR_SAVE_FAILED>>
               /\ Entities(conversation_states', sid) = Entities(conversation_states, sid)
          /\ NewCalls[1].result = "raise" =>
               /\ response' = <<HR_UNEXPECTED>>
               /\ DOMAIN Entities(conversation_states', sid)
                    \cap {KEY_HUMAN_REP_STEP, KEY_HUMAN_REP_NAME, KEY_HUMAN_REP_EMAIL} = {}
     ]_vars

\* A save came back False and the flow waits at confirm.
C9_Witness ==
  /\ app = "manager" /\ response = <<HR_SAVE_FAILED>>
  /\ \E sid \in SessionIds : HumanRepStep(conversation_states, sid) = STATE_CONFIRM
  /\ save_calls # <<>> /\ save_calls[Len(save_calls)].result = "false"

\* --------------------------------------------------- claims on both flows
\* The handoff of the session has completed.
HandoffCompleted ==
  IF app = "chatbot"
  THEN chat_state.contact_info_collected \/ channels.contact_info_collected
  ELSE \E sid \in SessionIds : HumanRepStep(conversation_states, sid) = STATE_COMPLETE

C11_ContactStepNeverDecreases ==
  [][(/\ app = "chatbot"
      /\ chat_state.needs_human_agent /\ chat_state'.needs_human_agent
      /\ handler' # "cancel")
     => chat_state'.contact_step >= chat_state.contact_step
    ]_vars

\* C12 as stated: a completed handoff (contact_info_collected in
\* chat_with_user, human_rep_step = complete in the manager) implies that name,
\* email and phone are all stored non-null in the session state, and the step
\* that completed it attempted to persist the record.
C12_CompletedMeansAllStored ==
  [][/\ (app = "chatbot" /\ chat_state'.contact_info_collected) =>
          /\ chat_state'.customer_name # None
          /\ chat_state'.customer_email # None
          /\ chat_state'.customer_phone # None
          /\ ~chat_state.contact_info_collected =>
               (Len(contact_csv') = Len(contact_csv) + 1 \/ outcome' = "raised")
     /\ app = "manager" => \A sid \in SessionIds :
          HumanRepStep(conversation_states', sid) = STATE_COMPLETE =>
            /\ Get(Entities(conversation_states', sid), KEY_HUMAN_REP_NAME, None) # None
            /\ Get(Entities(conversation_states', sid), KEY_HUMAN_REP_EMAIL, None) # None
            /\ Get(Entities(conversation_states', sid), KEY_HUMAN_REP_PHONE, None) # None
            /\ HumanRepStep(conversation_states, sid) # STATE_COMPLETE => Len(NewCalls) = 1
    ]_vars

\* C12 amended: a completed handoff implies that name and email are stored
\* non-null in the session state and the step that completed it attempted to
\* persist the record; chat_with_user also stores the phone non-null, while
\* HumanRepAgent keeps no phone in its entities: it hands the phone (None when
\* skipped) to the one save_contact_request call of the completing step.
C12_CompletedMeansNameEmailStored ==
  [][/\ (app = "chatbot" /\ chat_state'.contact_info_collected) =>
          /\ chat_state'.customer_name # None
          /\ chat_state'.customer_email # None
          /\ chat_state'.customer_phone # None
          /\ ~chat_state.contact_info_collected =>
               (Len(contact_csv') = Len(contact_csv) + 1 \/ outcome' = "raised")
     /\ app = "manager" => \A sid \in SessionIds :
          HumanRepStep(conversation_states', sid) = STATE_COMPLETE =>
            /\ Get(Entities(conversation_states', sid), KEY_HUMAN_REP_NAME, None) # None
            /\ Get(Entities(conversation_states', sid), KEY_HUMAN_REP_EMAIL, None) # None
            /\ KEY_HUMAN_REP_PHONE \notin DOMAIN Entities(conversation_states', sid)
            /\ HumanRepStep(conversation_states, sid) # STATE_COMPLETE =>
                 /\ Len(NewCalls) = 1
                 /\ NewCalls[1].full_name = Get(Entities(conversation_states', sid), KEY_HUMAN_REP_NAME, None)
                 /\ NewCalls[1].email = Get(Entities(conversation_states', sid), KEY_HUMAN_REP_EMAIL, None)
    ]_vars

\* The direct contact steps of chat_with_user completed a handoff: all three
\* fields are set and the row is in the file.
C12_Witness ==
  /\ app = "chatbot" /\ handler = "contact_step" /\ outcome = "returned"
  /\ chat_state.contact_info_collected
  /\ chat_state.customer_phone # None
  /\ contact_csv = <<ContactRow(chat_state)>>

\* C13: in HumanRepAgent.process at the email-awaiting step (human_rep_step =
\* ask_phone) an input is stored as the email and the flow advances to confirm
\* only if it contains '@'; any other input leaves the step and all stored
\* fields unchanged and gets the invalid-email re-prompt.
C13_EmailNeedsAt ==
  [][ManagerCall => \A sid \in SessionIds :
       HumanRepStep(conversation_states, sid) = STATE_ASK_PHONE =>
         IF ContainsAt(last_input')
         THEN /\ HumanRepStep(conversation_states', sid) = STATE_CONFIRM
              /\ Get(Entities(conversation_states', sid), KEY_HUMAN_REP_EMAIL, None) = Strip(last_input')
         ELSE /\ Entities(conversation_states', sid) = Entities(conversation_states, sid)
              /\ response' = <<HR_INVALID_EMAIL>>
              /\ NewCalls = <<>>
     ]_vars

\* A text without '@' was answered with the re-prompt and the flow still
\* waits for the email.
C13_Witness ==
  /\ app = "manager" /\ response = <<HR_INVALID_EMAIL>> /\ last_input = <<NAME>>
  /\ \E sid \in SessionIds :
       /\ HumanRepStep(conversation_states, sid) = STATE_ASK_PHONE
       /\ KEY_HUMAN_REP_EMAIL \notin DOMAIN Entities(conversation_states, sid)

\* C14: in both contact flows (chat_with_user at contact_step 1, HumanRepAgent
\* at human_rep_step = ask_email) an empty or whitespace-only input is not
\* stored as the name: the step and the stored name are unchanged and the user
\* is asked again.
C14_BlankNameReprompts ==
  [][/\ (/\ ChatCall
          /\ chat_state.needs_human_agent /\ ~chat_state.contact_info_collected
          /\ chat_state.contact_step = 1
          /\ Strip(last_input') = <<>>)
         => /\ chat_state'.contact_step = 1
            /\ chat_state'.customer_name = chat_state.customer_name
            /\ Len(chat_state'.messages) = Len(chat_state.messages) + 2
     /\ ManagerCall => \A sid \in SessionIds :
          (HumanRepStep(conversation_states, sid) = STATE_ASK_EMAIL /\ Strip(last_input') = <<>>)
          => /\ Entities(conversation_states', sid) = Entities(conversation_states, sid)
             /\ response' = <<HR_EMPTY_NAME>>
    ]_vars

\* C15: in chat_with_user with no contact flow active, an input holding a
\* human-handoff trigger phrase starts the contact flow (needs_human_agent
\* true, contact_step 1, the name prompt as the answer) even when it also holds
\* an FAQ trigger phrase.
C15_HandoffBeforeFaq ==
  [][(/\ ChatCall
      /\ ~chat_state.needs_human_agent
      /\ AnyIn(HUMAN_KEYWORDS, Lower(last_input')))
     => /\ handler' = "handoff_start"
        /\ chat_state'.needs_human_agent
        /\ chat_state'.contact_step = 1
        /\ Last(chat_state'.messages) = <<ASK_NAME_MSG>>
    ]_vars

\* The input matches an FAQ block, the greeting or the goodbye of chat_with_user.
FaqTrigger(ul) == FaqIndex(ul) # 0 \/ AnyIn(GREETINGS, ul) \/ AnyIn(GOODBYES, ul)

\* C16: in chat_with_user with no contact flow active, an input that matches
\* an FAQ trigger (greeting and goodbye included) and also holds a 32-character
\* identifier gets the FAQ response and no order lookup: order_lookup_attempted
\* and current_order_id are unchanged.
C16_FaqBeforeLookup ==
  [][(/\ ChatCall
      /\ ~chat_state.needs_human_agent
      /\ FaqTrigger(Lower(last_input'))
      /\ ~AnyIn(HUMAN_KEYWORDS, Lower(last_input'))
      /\ HasHex(last_input'))
     => /\ handler' \in {"faq", "greeting", "goodbye"}
        /\ chat_state'.order_lookup_attempted = chat_state.order_lookup_attempted
        /\ chat_state'.current_order_id = chat_state.current_order_id
    ]_vars

\* C17: in chat_with_user with no active contact flow, a message that holds a
\* 32-character identifier and no FAQ or handoff trigger is routed to order
\* lookup (the direct lookup or the lookup_order node) also when an order
\* lookup was already performed in the session (order_lookup_attempted true).
C17_IdentifierGoesToLookup ==
  [][(/\ ChatCall
      /\ ~chat_state.needs_human_agent
      /\ chat_state.order_lookup_attempted
      /\ HasHex(last_input')
      /\ ~FaqTrigger(Lower(last_input'))
      /\ ~AnyIn(HUMAN_KEYWORDS, Lower(last_input')))
     => \/ handler' = "order_lookup"
        \/ pc' = "lookup_order"
    ]_vars

\* ------------------------------------------------- claims on order lookup
OrderIdQuery(id) == [where |-> "order_id", value |-> id]
CustomerIdQuery(id) == [where |-> "customer_id", value |-> id]
\* The lookup_order node runs in the step.
LookupNodeStep == app = "chatbot" /\ pc = "lookup_order" /\ chat_state'.messages # chat_state.messages

\* C18: for a user message to chat_with_user that holds an order ID absent
\* from the in-memory order and customer indexes but present in the vector
\* collection, the response reports that order's status from the vector
\* collection and exactly one fallback query is made.
C18_VectorFallbackAnswers ==
  [][(/\ ChatCall
      /\ HasHex(last_input')
      /\ ~InOrderIndex(HexGroup(last_input'))
      /\ ~InCustomerIndex(HexGroup(last_input'))
      /\ VectorOrder(HexGroup(last_input')) # <<>>)
     => /\ Last(chat_state'.messages) =
             format_order_details(HexGroup(last_input'), VectorOrder(HexGroup(last_input'))[1].order_status)
        /\ vector_queries' = <<OrderIdQuery(HexGroup(last_input'))>>
    ]_vars

\* C19: in the lookup_order node the resolution order is fixed: an identifier
\* in the order-ID index is answered from it even if it is also a customer ID
\* or in the vector collection; the customer-ID index is used only when the
\* order-ID index misses; the vector collection is queried only when both
\* indexes miss, by order_id first, then by customer_id; the not-found message
\* is produced only when all of these miss.
C19_ResolutionOrder ==
  [][LookupNodeStep =>
       LET id == HexGroup(Last(chat_state.messages))
           answer == Last(chat_state'.messages)
       IN /\ InOrderIndex(id) =>
               /\ answer = format_order_details(id, order_index(id).order_status)
               /\ vector_queries' = <<>>
          /\ (~InOrderIndex(id) /\ InCustomerIndex(id)) =>
               /\ answer[1] \in {NODE_FOUND_ONE_CUSTOMER, FOUND_PRE}
               /\ answer[Len(answer)] = STATUS_DELIVERED
               /\ vector_queries' = <<>>
          /\ (~InOrderIndex(id) /\ ~InCustomerIndex(id) /\ VectorOrder(id) # <<>>) =>
               /\ answer = format_order_details(id, VectorOrder(id)[1].order_status)
               /\ vector_queries' = <<OrderIdQuery(id)>>
          /\ (~InOrderIndex(id) /\ ~InCustomerIndex(id) /\ VectorOrder(id) = <<>>) =>
               /\ vector_queries' = <<OrderIdQuery(id), CustomerIdQuery(id)>>
               /\ VectorCustomer(id) # <<>> =>
                    /\ answer[1] \in {NODE_FOUND_ONE_CUSTOMER, FOUND_PRE}
                    /\ answer[Len(answer)] = STATUS_SHIPPED
               /\ VectorCustomer(id) = <<>> => answer = <<NODE_NOT_FOUND_PRE, id, NOT_FOUND_POST>>
          /\ answer[1] = NODE_NOT_FOUND_PRE =>
               /\ ~InOrderIndex(id) /\ ~InCustomerIndex(id)
               /\ VectorOrder(id) = <<>> /\ VectorCustomer(id) = <<>>
    ]_vars

\* The node answered from the order-ID index for an identifier that is also a
\* customer ID of the dataset and an order of the vector collection.
C19_Witness ==
  /\ app = "chatbot" /\ handler = "graph" /\ channels.order_lookup_attempted
  /\ vector_queries = <<>>
  /\ \E id \in {ORDER_ID_1, ORDER_ID_2} :
       /\ InOrderIndex(id) /\ VectorOrder(id) # <<>>
       /\ Last(chat_state.messages) = format_order_details(id, "delivered")
  /\ InOrderIndex(ORDER_ID_1) /\ InCustomerIndex(ORDER_ID_1)

\* Row i of rows has the latest purchase timestamp and no earlier row has it.
LatestEarliest(rows, i) ==
  /\ \A j \in DOMAIN rows : rows[j].order_purchase_timestamp <= rows[i].order_purchase_timestamp
  /\ \A j \in 1..(i-1) : rows[j].order_purchase_timestamp < rows[i].order_purchase_timestamp

\* C20: when an identifier resolves as a customer ID with several orders (the
\* direct lookup of chat_with_user and the lookup_order node), the order
\* reported is the one with the latest purchase timestamp, among equal
\* timestamps the earliest in the dataset, and the response states the number
\* of orders found.
C20_MostRecentOrder ==
  [][/\ (/\ ChatCall /\ HasHex(last_input')
          /\ ~InOrderIndex(HexGroup(last_input'))
          /\ Len(customer_index(HexGroup(last_input'))) > 1)
         => LET id == HexGroup(last_input')
                rows == customer_index(id)
            IN \E i \in DOMAIN rows :
                 /\ LatestEarliest(rows, i)
                 /\ Last(chat_state'.messages) =
                      <<FOUND_PRE, ToString(Len(rows)), FOUND_MANY_CUSTOMER_MID, id, MOST_RECENT>>
                      \o format_order_details(rows[i].order_id, rows[i].order_status)
     /\ (/\ LookupNodeStep
          /\ ~InOrderIndex(HexGroup(Last(chat_state.messages)))
          /\ Len(customer_index(HexGroup(Last(chat_state.messages)))) > 1)
         => LET id == HexGroup(Last(chat_state.messages))
                rows == customer_index(id)
            IN \E i \in DOMAIN rows :
                 /\ LatestEarliest(rows, i)
                 /\ Last(chat_state'.messages) =
                      <<FOUND_PRE, ToString(Len(rows)), NODE_FOUND_MANY_CUSTOMER>>
                      \o format_order_details(rows[i].order_id, rows[i].order_status)
    ]_vars

\* The direct lookup reported the first of two orders of a customer that
\* were purchased at the same time.
C20_Witness ==
  /\ app = "chatbot" /\ handler = "order_lookup" /\ last_input = <<CUSTOMER_ID_1>>
  /\ Len(orders_df) = 2
  /\ orders_df[1].customer_id = CUSTOMER_ID_1 /\ orders_df[2].customer_id = CUSTOMER_ID_1
  /\ orders_df[1].order_purchase_timestamp = orders_df[2].order_purchase_timestamp
  /\ orders_df[1].order_id = ORDER_ID_1 /\ orders_df[2].order_id = ORDER_ID_2
  /\ Last(chat_state.messages) =
       <<FOUND_PRE, "2", FOUND_MANY_CUSTOMER_MID, CUSTOMER_ID_1, MOST_RECENT>>
       \o format_order_details(ORDER_ID_1, "delivered")

\* C21: when the order status agent runs on an input that holds an id, it
\* calls get_order_status_by_id once with that id and answers with what the
\* service returned: the formatted details of a known order, the not-found
\* message naming the id otherwise, never the generic error message.
C21_AgentReturnsServiceResult ==
  [][(/\ ManagerCall
      /\ ~FlowActive(get_or_create_state(conversation_states, "s1"))
      /\ conversation_states'["s1"].last_agent = "order_status_agent"
      /\ extract_order_id(last_input') # None)
     => LET order_id == extract_order_id(last_input')[1]
        IN /\ order_service_calls' = <<order_id>>
           /\ response' = get_order_status_by_id(order_id)
           /\ response' # <<ORDER_AGENT_ERROR>>]_vars

\* The last call of chat_with_user reached the direct lookup with an
\* identifier and loading the order data raised: no block before the lookup
\* took the turn and the lookup did not answer.
DirectLookupRaised ==
  /\ app = "chatbot" /\ turns > 0
  /\ ~state_before.order_lookup_attempted
  /\ HasHex(last_input)
  /\ handler \notin {"cancel", "faq", "handoff_start", "contact_step", "order_lookup", "customer_lookup"}

\* The messages of the code that report a failure without naming its cause.
GenericErrors == {<<LLM_TROUBLE_MSG>>, <<GRAPH_FALLBACK_MSG>>}

\* C22: when the order data cannot be loaded while chat_with_user handles a
\* message that holds an identifier, the call returns (no exception escapes)
\* with the messages before it, the user message and exactly one assistant
\* message, and that message is a generic error message: not an FAQ answer,
\* not a greeting, not a re-prompt.
C22_LookupFailureAnswersError ==
  (ChatCallEnded /\ DirectLookupRaised) =>
    /\ outcome = "returned"
    /\ \E text \in GenericErrors :
         chat_state.messages = state_before.messages \o <<Msg("user", last_input), Msg("assistant", text)>>

\* The static text of each generation path.
StaticFallback(by) ==
  IF by = "continue_conversation" THEN <<LLM_TROUBLE_MSG>> ELSE <<LLM_SERVICE_TROUBLE_MSG>>

\* C23: one free-form generation (the continue_conversation node or
\* LLMService.generate_response) invokes the model once or twice; the second
\* invocation happens only after the first raised and uses the simplified
\* prompt; the static fallback text is produced exactly when the second also
\* raised, else the text is the model's reply; the node appends the text as
\* its assistant message and no exception leaves the call.
C23_AtMostTwoAttempts ==
  generation # NoGeneration =>
    LET calls == generation.calls
        n == Len(calls)
    IN /\ n \in 1..2
       /\ calls[1].prompt = "full"
       /\ n = 1 => calls[1].result = "ok"
       /\ n = 2 => calls[1].result = "raise" /\ calls[2].prompt = "simple"
       /\ IF calls[n].result = "raise"
          THEN generation.text = StaticFallback(generation.by)
          ELSE generation.text \in LlmReplies
       /\ outcome # "raised"
       /\ generation.by = "continue_conversation" =>
            chat_state.messages[Len(chat_state.messages)] = Msg("assistant", generation.text)

C23_Witness ==
  /\ generation.by = "continue_conversation"
  /\ Len(generation.calls) = 2
  /\ generation.calls[2].result = "raise"
  /\ Last(chat_state.messages) = <<LLM_TROUBLE_MSG>>

\* C24: when determine_intent or generate_response raises inside
\* handle_message, handle_chat_interaction still ends with the input
\* controls enabled and the apology shown after the user's message; the
\* failed call leaves the entities of the session as they were and adds only
\* the user message to its history, and the next message of the session is
\* answered and shown like any other.
C24_LlmFailureIsShownAndSurvived ==
  [][ManagerCall =>
       LET before == get_or_create_state(conversation_states, "s1")
           after == conversation_states'["s1"]
           shown == IF outcome' = "raised" THEN <<DEFAULT_ERROR_MESSAGE>> ELSE response'
       IN /\ ui'.interactive
          /\ ui'.history = ui.history \o <<Pair(last_input', None), Pair(None, shown)>>
          /\ outcome' = "raised" =>
               /\ after.extracted_entities = before.extracted_entities
               /\ after.history = Append(before.history, [role |-> "user", parts |-> <<last_input'>>])
          /\ outcome' = "returned" =>
               /\ response' # <<>>
               /\ after.history = before.history \o <<[role |-> "user", parts |-> <<last_input'>>],
                                                       [role |-> "model", parts |-> <<response'>>]>>
     ]_vars

C24_Witness ==
  /\ app = "manager" /\ turns = 2 /\ outcome = "returned"
  /\ Len(ui.history) = 5
  /\ ui.history[3] = Pair(None, <<DEFAULT_ERROR_MESSAGE>>)
  /\ ui.history[5] = Pair(None, response)
  /\ ui.interactive

\* An earlier cached_get_order_by_id(id) came back empty although the
\* collection holds the order: its query raised.
OrderLookupFailedBefore(id) ==
  /\ Cached("get_order_by_id", id)
  /\ lru_cache[<<"get_order_by_id", id>>] = <<>>
  /\ VectorOrder(id) # <<>>

\* C25: a cached vector lookup that came back empty because the query raised
\* is retried: when lookup_order runs again for that identifier (in no
\* index) while the vector store answers, the order id query is sent again
\* and the answer is the status of the order the collection holds.
C25_FailedLookupIsRetried ==
  [][(/\ LookupNodeStep
      /\ HasHex(Last(chat_state.messages))
      /\ ~InOrderIndex(HexGroup(Last(chat_state.messages)))
      /\ ~InCustomerIndex(HexGroup(Last(chat_state.messages)))
      /\ vector_healthy
      /\ OrderLookupFailedBefore(HexGroup(Last(chat_state.messages))))
     => LET id == HexGroup(Last(chat_state.messages))
        IN /\ vector_queries' = <<OrderIdQuery(id)>>
           /\ Last(chat_state'.messages) = format_order_details(id, VectorOrder(id)[1].order_status)
    ]_vars

\* The identifier contract on one phrase: the leftmost alphanumeric run of
\* exactly 32 characters that has no alphanumeric neighbour, "" for none.
BoundedRun32(p) ==
  CASE p \in {ORDER_ID_1, ORDER_ID_2, CUSTOMER_ID_1, MIXED_ID} -> p
    [] p = ORDER_STATUS_PROMPT -> ORDER_ID_1
    [] p = LLM_ORDER -> ORDER_ID_1
    [] OTHER -> ""
ContractId(text) ==
  IF \E i \in DOMAIN text : BoundedRun32(text[i]) # ""
  THEN <<BoundedRun32(text[CHOOSE i \in DOMAIN text : BoundedRun32(text[i]) # ""
                             /\ \A j \in 1..(i-1) : BoundedRun32(text[j]) = ""])>>
  ELSE None

\* C26: extract_order_id returns the leftmost run of exactly 32 alphanumeric
\* characters bounded by non-alphanumeric characters or the ends of the
\* text, in its own case, and None when there is no such run, also when a
\* run is longer than 32.  Seen where the order status agent passes the
\* extracted id to the order service.
C26_ExtractsBoundedRun ==
  [][(/\ ManagerCall
      /\ ~FlowActive(get_or_create_state(conversation_states, "s1"))
      /\ conversation_states'["s1"].last_agent = "order_status_agent")
     => /\ extract_order_id(last_input') = ContractId(last_input')
        /\ order_service_calls' = IF ContractId(last_input') = None THEN <<>> ELSE ContractId(last_input')
    ]_vars

\* C27: the routing of chat_with_user and of the graph router detects an
\* identifier exactly where the identifier contract does (a bounded run of
\* exactly 32 characters of [a-zA-Z0-9], any letter, either case).  With no
\* lookup attempted yet and no block of higher priority taking the turn, the
\* direct lookup handles the call exactly when the input holds such a run,
\* and after a reply of the model the router picks lookup_order whenever the
\* reply holds such a run.
C27_RoutingDetectsContractIds ==
  [][/\ (/\ ChatCall
          /\ ~chat_state.order_lookup_attempted
          /\ handler' \notin {"cancel", "faq", "handoff_start", "contact_step"})
         => (handler' = "order_lookup" <=> ContractId(last_input') # None)
     /\ (/\ app = "chatbot" /\ pc = "continue_conversation"
          /\ Len(chat_state'.messages) = Len(chat_state.messages) + 1
          /\ ~channels.order_lookup_attempted
          /\ ~Has(Lower(Last(chat_state'.messages)), "thanks")
          /\ ContractId(Last(chat_state'.messages)) # None)
         => pc' = "lookup_order"
    ]_vars

\* C28: whatever the calls of chat_with_user so far, the messages list holds
\* no two adjacent entries with the same role and the same content.
C28_NoAdjacentDuplicates ==
  ChatCallEnded =>
    \A i \in 1..(Len(chat_state.messages) - 1) : chat_state.messages[i] # chat_state.messages[i + 1]

\* C29: a call of process_message that chat_with_user answered leaves, at the
\* end of the history, the user's message followed by an assistant reply, also
\* when the message or the reply repeats an earlier entry of the session.
AppTurnAnswered ==
  /\ app = "app" /\ pc = "idle" /\ turns > 0
  /\ outcome = "returned" /\ handler # "credentials"
C29_TurnLeavesMessageAndReply ==
  AppTurnAnswered =>
    LET m == chat_state.messages
    IN /\ Len(m) >= 2
       /\ m[Len(m) - 1] = Msg("user", last_input)
       /\ m[Len(m)].role = "assistant"

\* C30: the history of a session before a call of handle_message is a prefix
\* of its history after the call: no entry is removed or reordered.
StoredHistory(states, sid) == IF sid \in DOMAIN states THEN states[sid].history ELSE <<>>
IsPrefixOf(a, b) == Len(a) <= Len(b) /\ SubSeq(b, 1, Len(a)) = a
C30_HistoryIsAppendOnly ==
  [][ManagerCall =>
       IsPrefixOf(StoredHistory(conversation_states, "s1"), StoredHistory(conversation_states', "s1"))]_vars

\* C31: a call of chat_with_user changes current_order_id only to the id of
\* an order that the dataset or the vector collection holds; a lookup that
\* finds nothing and a turn without an identifier leave it as it was.
IsStoredOrder(id) == InOrderIndex(id) \/ VectorOrder(id) # <<>>
C31_CurrentOrderIdIsResolvedOrder ==
  (ChatCallEnded /\ outcome = "returned" /\ chat_state.current_order_id # state_before.current_order_id) =>
    /\ chat_state.current_order_id # None
    /\ IsStoredOrder(chat_state.current_order_id[1])

\* C32: a call of chat_with_user outside the contact flow whose input holds
\* a policy FAQ trigger returns at once, without the graph and without the
\* language model, and appends the canned text of that FAQ, whatever the
\* earlier turns and the flags of the session.
HandoffPending(s) == s.needs_human_agent /\ ~s.contact_info_collected
FaqCall == ChatCallEnded /\ FaqIndex(Lower(last_input)) # 0 /\ ~HandoffPending(state_before)
C32_FaqAnsweredDirectly ==
  FaqCall =>
    /\ handler = "faq" /\ outcome = "returned"
    /\ llm_replies = 0 /\ steps = 0 /\ generation = NoGeneration /\ vector_queries = <<>>
    /\ chat_state = Reply([state_before EXCEPT !.messages = Append(@, Msg("user", last_input))],
                          FAQS[FaqIndex(Lower(last_input))].response)
C32_Witness ==
  /\ FaqCall /\ handler = "faq"
  /\ state_before.needs_human_agent /\ state_before.contact_info_collected
  /\ Len(state_before.messages) > 0
C32_WitnessAfterLookup ==
  /\ FaqCall /\ handler = "faq"
  /\ state_before.order_lookup_attempted /\ state_before.current_order_id # None

\* C33: the history handle_message passes to determine_intent holds the
\* completed earlier exchanges of the session and not the user message of
\* the turn: it is the history the session had when the call began.
IntentCalls == SelectSeq(llm_calls, LAMBDA c : c.fn = "determine_intent")
C33_IntentHistoryExcludesCurrentMessage ==
  [][ManagerCall =>
       \A i \in DOMAIN IntentCalls' :
         IntentCalls'[i].history = get_or_create_state(conversation_states, "s1").history]_vars

\* C34: outside a human representative flow handle_message calls
\* determine_intent exactly once, with the user input, and hands the turn to
\* the agent registered for the intent returned; it calls generate_response,
\* once and with the user input as prompt, exactly when that intent is
\* general_query or unknown; while a flow is in progress it makes no call
\* to the language model service and the human representative agent answers.
GenerateCalls == SelectSeq(llm_calls, LAMBDA c : c.fn = "generate_response")
C34_WitnessGenerated ==
  /\ app = "manager" /\ Len(GenerateCalls) = 1 /\ Len(IntentCalls) = 1
  /\ conversation_states["s1"].last_agent = "llm_general_response"

\* C35: calls of handle_message for one session do not overlap: while a call
\* is suspended no other call of the session has recorded its user message,
\* so the suspended call is the only one and its user message is the last
\* entry of the history.
C35_TurnsDoNotOverlap ==
  (app = "manager" /\ in_flight # <<>>) =>
    /\ Len(in_flight) = 1
    /\ LET h == conversation_states[in_flight[1].sid].history
       IN h[Len(h)] = [role |-> "user", parts |-> <<in_flight[1].user_input>>]

\* C36: a call of handle_message for one session leaves the state of every
\* other session as it was: the session called takes the user message, and
\* each other session keeps its history, current_intent, last_agent and
\* extracted_entities, and is neither created nor removed.
TakesUserMessage(before, after, text) ==
  /\ Len(after.history) > Len(before.history)
  /\ after.history[Len(before.history) + 1] = [role |-> "user", parts |-> <<text>>]
C36_OtherSessionsUnchanged ==
  [][ManagerCall =>
       \E a \in TwoSessions :
         /\ a \in DOMAIN conversation_states'
         /\ TakesUserMessage(get_or_create_state(conversation_states, a), conversation_states'[a], last_input')
         /\ \A b \in TwoSessions \ {a} :
              /\ b \in DOMAIN conversation_states' <=> b \in DOMAIN conversation_states
              /\ b \in DOMAIN conversation_states => conversation_states'[b] = conversation_states[b]]_vars
C36_Witness ==
  /\ app = "manager" /\ turns >= 3
  /\ DOMAIN conversation_states = TwoSessions
  /\ FlowActive(conversation_states["s1"])
  /\ ~FlowActive(conversation_states["s2"])
  /\ Len(conversation_states["s2"].history) >= 2

\* C37: once the phone step has set contact_info_collected, no step of
\* chat_with_user or of the graph clears needs_human_agent, in the state the
\* caller holds and in the state of the running graph.
ContactCollected(s) == s.needs_human_agent /\ s.contact_info_collected
C38_GraphEndsBeforeLimit ==
  (app = "chatbot" /\ pc # "idle") => steps < RECURSION_LIMIT

\* C39: between the sequential turns of ConversationManager every session's
\* history alternates roles, starting with user: user, model, user, model, ...,
\* also after a turn in which the language model collaborator raised.
Alternates(history) ==
  \A i \in 1..Len(history) :
    history[i].role = (IF i % 2 = 1 THEN "user" ELSE "model")
C39_HistoryAlternates ==
  app = "manager" =>
    \A sid \in DOMAIN conversation_states : Alternates(conversation_states[sid].history)

\* C40: the history of a session is bounded. A turn first cuts the history to
\* its last MAX_CONVERSATION_HISTORY entries and then appends the user message
\* and at most one model message, so a history never holds more than
\* MAX_CONVERSATION_HISTORY + 2 entries, the language model is handed at most
\* MAX_CONVERSATION_HISTORY + 1, and what a turn keeps of the earlier history
\* is its most recent entries, contiguous and in their order.
LastEntries(history, n) ==
  IF Len(history) > n THEN SubSeq(history, Len(history) - n + 1, Len(history)) ELSE history
C40_HistoryBoundedSuffix ==
  [][ManagerCall =>
       \A sid \in DOMAIN conversation_states' :
         LET old == StoredHistory(conversation_states, sid)
             new == conversation_states'[sid].history
             kept == LastEntries(old, MAX_CONVERSATION_HISTORY)
         IN /\ Len(new) <= MAX_CONVERSATION_HISTORY + 2
            /\ \A i \in DOMAIN llm_calls' :
                 Len(llm_calls'[i].history) <= MAX_CONVERSATION_HISTORY + 1
            /\ \/ new = old
               \/ /\ IsPrefixOf(kept, new)
                  /\ Len(new) \in {Len(kept) + 1, Len(kept) + 2}
                  /\ new[Len(kept) + 1].role = "user"]_vars
\* Seven turns of one session: fourteen entries were appended, twelve are held.
C40_Witness ==
  /\ app = "manager"
  /\ DOMAIN conversation_states = {"s1"}
  /\ turns = 7
  /\ Len(conversation_states["s1"].history) = MAX_CONVERSATION_HISTORY + 2

====
